---------------------------- MODULE Spec2Model ----------------------------
(***************************************************************************)
(* Model of the DocumentRegistry contract (sc/src/DocumentRegistry.sol)    *)
(* and of the ledger that serialises the transactions sent to it.          *)
(*                                                                         *)
(* A call that reverts leaves the contract storage untouched and emits no  *)
(* event; what the caller observes of it is the revert reason, kept in     *)
(* `last`, the receipt of the most recent call.                            *)
(***************************************************************************)
EXTENDS Integers, Sequences, FiniteSets, TLC

(***************************************************************************)
(* Bounds of the model.                                                    *)
(***************************************************************************)
MaxHash == 1
MaxTime == 2
MaxRace == 2

(***************************************************************************)
(* Values.                                                                 *)
(***************************************************************************)
\* require(... _signature.length <= 2048 ...)
MaxSignatureLength == 2048

\* address(0), the default value of Document.signer
NullAddress == "address(0)"
user1 == "user1"
user2 == "user2"
Addresses == {NullAddress, user1, user2}

\* bytes32(0), the default value of Document.hash; a key like any other
ZeroHash == 0
Hashes == ZeroHash..MaxHash

\* `bytes`: a length and the content
EmptyBytes == [len |-> 0, data |-> ""]
Signatures ==
    { EmptyBytes,
      [len |-> 1, data |-> "s"],
      [len |-> MaxSignatureLength, data |-> "test signature"],
      [len |-> MaxSignatureLength + 1, data |-> "oversized"] }

\* `string _ipfsCid`
EmptyCid == ""
Cids == {EmptyCid, "QmXoypizjW3WknFiJnKLwHCnL72vedxjQkDDP1mXWo6uco"}

\* uint256 _timestamp: nothing is computed from it, only compared
Timestamps == 0..(MaxTime + 1)

\* uint256 _index
Indexes == 0..(MaxHash + 2)

\* struct Document, and the value a mapping holds for a key never written
Document(_hash, _timestamp, _signer, _signature, _ipfsCid) ==
    [hash |-> _hash, timestamp |-> _timestamp, signer |-> _signer,
     signature |-> _signature, ipfsCid |-> _ipfsCid]

EmptyDocument == Document(ZeroHash, 0, NullAddress, EmptyBytes, EmptyCid)

\* Revert reasons, and the status of a call that did not revert
Ok == "ok"
AlreadyExists == "Document already exists"
TimestampZero == "Timestamp must be greater than zero"
TimestampFuture == "Timestamp cannot be in the future"
InvalidSignature == "Invalid signature"
InvalidSigner == "Invalid signer address"
NotFound == "Document does not exist"
OutOfRange == "Index out of bounds"
Pending == "pending"

VARIABLES
    documents,       \* mapping(bytes32 => Document) documents
    documentHashes,  \* bytes32[] documentHashes
    now,             \* block.timestamp
    last,            \* receipt of the most recent call: status, return value, events
    committed,       \* history: the arguments of the calls of storeDocumentHash
                     \* that returned, in the order they returned, with the block time
    pool,            \* transactions submitted to the ledger (SpecRace)
    receipts         \* status of each transaction of the pool (SpecRace)

\* The signing page of the dapp (Step2SignDocument) and what it runs on
VARIABLES
    account,             \* useMetaMask().account: an address, or null
    isConnected,         \* useMetaMask().isConnected
    contract,            \* useContract(): TRUE when the contract instance is loaded
    pinataJwt,           \* TRUE when NEXT_PUBLIC_PINATA_JWT is configured
    file,                \* fileData.file, by what uploadToIPFS looks at: its size
    artifact,            \* fileData.file, by what is hashed: its name and its bytes
    documentHash,        \* useState(fileData.hash || '')
    isProcessing,        \* useState(false)
    error,               \* useState<string | null>(null)
    signStatus,          \* 'idle' | 'loading' | 'ok' | 'error'
    ipfsStatus,
    blockchainStatus,
    ipfsProgress,        \* IPFSProgress
    blockchainProgress,  \* BlockchainProgress
    blockchainData,      \* what onStored(data) hands to the parent, or null
    pc,                  \* the await at which handleSignAndStore is suspended
    retryAttempt,        \* parameter of the pending uploadToIPFSWithRetry
    errorMessage,        \* what the last catch of uploadToIPFSWithRetry caught
    signature,           \* SignatureData returned by signDocument
    ipfsCid,             \* CID returned by uploadToIPFSWithRetry
    calls                \* history: what the current run called outside the page

\* The wallet and network providers (MetaMaskProvider, NetworkProvider);
\* account and isConnected above are state of MetaMaskProvider too
VARIABLES
    currentNetwork,      \* useState<string>(getDefaultNetwork()): a key of NETWORKS
    currentWalletIndex,  \* useState(0)
    walletError,         \* MetaMaskProvider: useState<string | null>(null)
    mnemonics,           \* NETWORKS[key].mnemonic, from the environment of the build
    walletCall           \* history: the most recent call made to the two providers

walletVars == <<currentNetwork, currentWalletIndex, walletError, mnemonics, walletCall>>

\* The stepper of the signing tab (DocumentSignerStepper) and its first page
VARIABLES
    state,               \* useReducer(stepperReducer, initialState)
    step1File            \* Step1UploadFile: useState<File | null>(fileData?.file || null);
                         \* null while the page is not mounted

stepperVars == <<state, step1File>>

runVars ==
    <<walletVars, stepperVars,
      account, isConnected, contract, pinataJwt, file, artifact, documentHash,
      isProcessing, error, signStatus, ipfsStatus, blockchainStatus, ipfsProgress,
      blockchainProgress, blockchainData, pc, retryAttempt, errorMessage,
      signature, ipfsCid, calls>>

\* The verification page of the dapp (DocumentVerifier) and what it runs on
VARIABLES
    verifierFile,        \* useState<File | null>(null)
    signerAddress,       \* useState(''): what was typed, an address or an ENS name
    chainId,             \* networkConfig.chainId
    addressCache,        \* utils/ens.ts: addressCache
    isVerifying,         \* useState(false)
    verificationResult,  \* { isValid, documentInfo, error? } or null
    vpc,                 \* the await at which handleVerify is suspended
    resolvedAddress,     \* local of handleVerify
    fileHash,            \* local of handleVerify
    consulted,           \* history: the calls the current verification made to
                         \* the contract, with the length of `committed` then
    verifyStart          \* history: the length of `committed` at the click

verifierVars ==
    <<verifierFile, signerAddress, chainId, addressCache, isVerifying,
      verificationResult, vpc, resolvedAddress, fileHash, consulted, verifyStart>>

clientVars == <<runVars, verifierVars>>

registryVars == <<documents, documentHashes, now, last, committed, pool, receipts>>

vars == <<documents, documentHashes, now, last, committed, pool, receipts, clientVars>>


(***************************************************************************)
(* View functions: the status of the call and, when it returns, its value. *)
(***************************************************************************)
Returns(v) == [status |-> Ok, ret |-> v]

Reverts(reason) == [status |-> reason, ret |-> reason]

\* Faulty variants of _documentNotExists: the wrong field tested; the check left out
documentNotExists_byCid(_hash) == documents[_hash].ipfsCid = EmptyCid

documentNotExists_unchecked(_hash) == TRUE

\* Faulty variant of _documentNotExists: looks at the index, not at the key
documentNotExists_anyKey(_hash) == documentHashes = <<>>

\* _documentNotExists: require(documents[_hash].signer == address(0), ...)
documentNotExists(_hash) == documents[_hash].signer = NullAddress

\* _documentExists: require(documents[_hash].signer != address(0), ...)
documentExists(_hash) == documents[_hash].signer # NullAddress

getDocumentInfo(_hash) ==
    IF documentExists(_hash) THEN Returns(documents[_hash]) ELSE Reverts(NotFound)

getDocumentSignature(_hash) ==
    IF documentExists(_hash) THEN Returns(documents[_hash].signature) ELSE Reverts(NotFound)

getDocumentCid(_hash) ==
    IF documentExists(_hash) THEN Returns(documents[_hash].ipfsCid) ELSE Reverts(NotFound)

\* Faulty variant of isDocumentStored: existence read from the locator
isDocumentStored_byCid(_hash) == Returns(documents[_hash].ipfsCid # EmptyCid)

isDocumentStored(_hash) == Returns(documents[_hash].signer # NullAddress)

getDocumentCount == Returns(Len(documentHashes))

\* documentHashes[_index], the array being indexed from 0
getDocumentHashByIndex(_index) ==
    IF _index < Len(documentHashes) THEN Returns(documentHashes[_index + 1]) ELSE Reverts(OutOfRange)

(***************************************************************************)
(* storeDocumentHash: the modifier and the four requires, in their order.  *)
(***************************************************************************)
TimestampPositive(_timestamp) == _timestamp > 0

\* Faulty variant of the second require: the block's own time refused
TimestampNotFuture_strict(_timestamp) == _timestamp < now

TimestampNotFuture(_timestamp) == _timestamp <= now

\* Faulty variant of the third require: the lower bound left out
ValidSignature_allowsEmpty(_signature) == _signature.len <= MaxSignatureLength

ValidSignature(_signature) == _signature.len > 0 /\ _signature.len <= MaxSignatureLength

\* Faulty variant of the fourth require: the check left out
ValidSigner_unchecked(_signer) == TRUE

ValidSigner(_signer) == _signer # NullAddress

\* Faulty variant of the order of the requires: the signer checked first
storeDocumentHashStatus_signerFirst(_hash, _timestamp, _signature, _signer) ==
    IF ~ValidSigner(_signer) THEN InvalidSigner
    ELSE IF ~documentNotExists(_hash) THEN AlreadyExists
    ELSE IF ~TimestampPositive(_timestamp) THEN TimestampZero
    ELSE IF ~TimestampNotFuture(_timestamp) THEN TimestampFuture
    ELSE IF ~ValidSignature(_signature) THEN InvalidSignature
    ELSE Ok

\* The reason storeDocumentHash reverts with, Ok when it does not
storeDocumentHashStatus(_hash, _timestamp, _signature, _signer) ==
    IF ~documentNotExists(_hash) THEN AlreadyExists
    ELSE IF ~TimestampPositive(_timestamp) THEN TimestampZero
    ELSE IF ~TimestampNotFuture(_timestamp) THEN TimestampFuture
    ELSE IF ~ValidSignature(_signature) THEN InvalidSignature
    ELSE IF ~ValidSigner(_signer) THEN InvalidSigner
    ELSE Ok

\* Faulty variant of the struct literal: the locator not stored
NewDocument_noCid(_hash, _timestamp, _signature, _signer, _ipfsCid) ==
    Document(_hash, _timestamp, _signer, _signature, EmptyCid)

\* Faulty variant of the struct literal: the hash field left at its default
NewDocument_zeroHash(_hash, _timestamp, _signature, _signer, _ipfsCid) ==
    Document(ZeroHash, _timestamp, _signer, _signature, _ipfsCid)

\* documents[_hash] = Document({...})
NewDocument(_hash, _timestamp, _signature, _signer, _ipfsCid) ==
    Document(_hash, _timestamp, _signer, _signature, _ipfsCid)

\* Faulty variants of the push: at the front; only into an empty array
PushHash_front(hashes, _hash) == <<_hash>> \o hashes

PushHash_once(hashes, _hash) == IF hashes = <<>> THEN <<_hash>> ELSE hashes

\* documentHashes.push(_hash)
PushHash(hashes, _hash) == Append(hashes, _hash)

\* emit DocumentStored(_hash, _signer, _timestamp, _signature)
DocumentStored(_hash, _signer, _timestamp, _signature) ==
    [event |-> "DocumentStored", hash |-> _hash, signer |-> _signer,
     timestamp |-> _timestamp, signature |-> _signature]

\* emit DocumentVerified(_hash, _signer, isValid)
DocumentVerified(_hash, _signer, isValid) ==
    [event |-> "DocumentVerified", hash |-> _hash, signer |-> _signer, isValid |-> isValid]

Receipt(op, status, ret, logs) == [op |-> op, status |-> status, ret |-> ret, logs |-> logs]

\* The arguments of a call of storeDocumentHash
Tx(_hash, _timestamp, _signature, _signer, _ipfsCid) ==
    [hash |-> _hash, timestamp |-> _timestamp, signature |-> _signature,
     signer |-> _signer, ipfsCid |-> _ipfsCid]

\* Faulty variant of storeDocumentHash: the push made before the requires
\* and not undone when one of them fails
storeDocumentHash_noRollback(_hash, _timestamp, _signature, _signer, _ipfsCid) ==
    LET status == storeDocumentHashStatus(_hash, _timestamp, _signature, _signer) IN
    IF status = Ok
    THEN /\ documents' = [documents EXCEPT
                ![_hash] = NewDocument(_hash, _timestamp, _signature, _signer, _ipfsCid)]
         /\ documentHashes' = PushHash(documentHashes, _hash)
         /\ last' = Receipt("storeDocumentHash", Ok, "",
                        <<DocumentStored(_hash, _signer, _timestamp, _signature)>>)
         /\ committed' = Append(committed,
                [tx |-> Tx(_hash, _timestamp, _signature, _signer, _ipfsCid), at |-> now])
         /\ UNCHANGED now
    ELSE /\ last' = Receipt("storeDocumentHash", status, "", <<>>)
         /\ documentHashes' = IF status = AlreadyExists THEN documentHashes
                                ELSE PushHash(documentHashes, _hash)
         /\ UNCHANGED <<documents, committed, now>>

\* Faulty variant of storeDocumentHash: an empty locator is refused
storeDocumentHash_needsCid(_hash, _timestamp, _signature, _signer, _ipfsCid) ==
    LET status == IF _ipfsCid = EmptyCid
                  THEN "Invalid IPFS CID"
                  ELSE storeDocumentHashStatus(_hash, _timestamp, _signature, _signer)
    IN
    IF status = Ok
    THEN /\ documents' = [documents EXCEPT
                ![_hash] = NewDocument(_hash, _timestamp, _signature, _signer, _ipfsCid)]
         /\ documentHashes' = PushHash(documentHashes, _hash)
         /\ last' = Receipt("storeDocumentHash", Ok, "",
                        <<DocumentStored(_hash, _signer, _timestamp, _signature)>>)
         /\ committed' = Append(committed,
                [tx |-> Tx(_hash, _timestamp, _signature, _signer, _ipfsCid), at |-> now])
         /\ UNCHANGED now
    ELSE /\ last' = Receipt("storeDocumentHash", status, "", <<>>)
         /\ UNCHANGED <<documents, documentHashes, committed, now>>

storeDocumentHash(_hash, _timestamp, _signature, _signer, _ipfsCid) ==
    LET status == storeDocumentHashStatus(_hash, _timestamp, _signature, _signer) IN
    IF status = Ok
    THEN /\ documents' = [documents EXCEPT
                ![_hash] = NewDocument(_hash, _timestamp, _signature, _signer, _ipfsCid)]
         /\ documentHashes' = PushHash(documentHashes, _hash)
         /\ last' = Receipt("storeDocumentHash", Ok, "",
                        <<DocumentStored(_hash, _signer, _timestamp, _signature)>>)
         /\ committed' = Append(committed,
                [tx |-> Tx(_hash, _timestamp, _signature, _signer, _ipfsCid), at |-> now])
         /\ UNCHANGED now
    ELSE /\ last' = Receipt("storeDocumentHash", status, "", <<>>)
         /\ UNCHANGED <<documents, documentHashes, committed, now>>

\* Faulty variant of the value verifyDocument returns: the signer is not compared
verifyDocumentResult_anySigner(_hash, _signer, _signature) ==
    documents[_hash].signature.len > 0 /\ _signature.len > 0

\* The value verifyDocument returns
verifyDocumentResult(_hash, _signer, _signature) ==
    LET doc == documents[_hash] IN
    IF doc.signer = NullAddress
    THEN FALSE
    ELSE doc.signer = _signer /\ doc.signature.len > 0 /\ _signature.len > 0

\* Faulty variant of verifyDocument: notes the time of the verification in
\* the record
verifyDocument_touching(_hash, _signer, _signature) ==
    /\ last' = Receipt("verifyDocument", Ok, verifyDocumentResult(_hash, _signer, _signature),
                    <<DocumentVerified(_hash, _signer,
                                       verifyDocumentResult(_hash, _signer, _signature))>>)
    /\ documents' = [documents EXCEPT ![_hash].timestamp = now]
    /\ UNCHANGED <<documentHashes, committed, now>>

verifyDocument(_hash, _signer, _signature) ==
    LET isValid == verifyDocumentResult(_hash, _signer, _signature) IN
    /\ last' = Receipt("verifyDocument", Ok, isValid,
                    <<DocumentVerified(_hash, _signer, isValid)>>)
    /\ UNCHANGED <<documents, documentHashes, committed, now>>

(***************************************************************************)
(* The signing page: values.                                               *)
(***************************************************************************)
\* JavaScript null / undefined
Null == "null"

\* useState<string>(fileData.hash || ''): the hash is not calculated yet
NoHash == -1

\* UPLOAD_CONFIG.ipfs
maxRetries == 3
retryDelay == 2000

\* fileData.file as uploadToIPFS sees it: a PDF with content, a file of size
\* 0, a file above MAX_FILE_SIZE
Files == {"pdf", "empty", "tooLarge"}

\* class IPFSError: its type and its message
IPFSError(type, message) == [type |-> type, message |-> message]

FileTooLarge == IPFSError("FILE_TOO_LARGE", "File size exceeds maximum allowed size")
EmptyFile == IPFSError("UPLOAD_FAILED", "Cannot upload empty file")
JwtNotConfigured == IPFSError("MISSING_JWT", "Pinata JWT token is not configured")
JwtInvalid == IPFSError("MISSING_JWT", "Invalid Pinata JWT token")
NetworkError == IPFSError("NETWORK_ERROR", "Network error occurred while uploading to IPFS")
NoCidReturned == IPFSError("UPLOAD_FAILED", "Upload succeeded but no CID was returned")
UploadFailed == IPFSError("UPLOAD_FAILED", "Upload failed")

\* What one call of uploadToIPFS(file) can do: return a result with a
\* non-empty CID, or throw an IPFSError
Uploaded(cid) == [ok |-> TRUE, cid |-> cid, error |-> IPFSError(Null, Null)]

UploadThrows(e) == [ok |-> FALSE, cid |-> EmptyCid, error |-> e]

uploadToIPFS_results(_file) ==
    IF _file = "tooLarge" THEN {UploadThrows(FileTooLarge)}
    ELSE IF _file = "empty" THEN {UploadThrows(EmptyFile)}
    ELSE IF ~pinataJwt THEN {UploadThrows(JwtNotConfigured)}
    ELSE { Uploaded(cid) : cid \in Cids \ {EmptyCid} } \cup
         { UploadThrows(e) : e \in {NoCidReturned, NetworkError, JwtInvalid, UploadFailed} }

\* Messages of the errors thrown in the page and in its hooks
WalletNotConnected == "Wallet not connected"
HashNotCalculated == "Document hash not calculated"
SignFailed == "Failed to sign message"
NoTxHash == "Transaction failed - no transaction hash returned"
TransportError == "could not coalesce error"

\* What storeDocumentHash of useContract returns when it does not call the
\* contract (undefined); a transaction hash is the position of the
\* transaction in the history, from 1
NoTx == 0

\* Faulty variant of the signature of the wallet: nothing signed
WalletSignature_empty == EmptyBytes

\* ethers Wallet.signMessage: a 65-byte signature
WalletSignature == [len |-> 65, data |-> "Signing document with hash"]

\* IPFSProgress.retryAttempt when the field is left out (retryAttempt?: number)
NoAttempt == -1

\* Faulty variant of the signature data: the signer is not the account
SignatureData_otherSigner(_signature, _timestamp, _signerAddress) ==
    [signature |-> _signature, timestamp |-> _timestamp, signerAddress |-> user2]

SignatureData(_signature, _timestamp, _signerAddress) ==
    [signature |-> _signature, timestamp |-> _timestamp, signerAddress |-> _signerAddress]

IPFSProgress(status, progress, _retryAttempt, cid, _error) ==
    [status |-> status, progress |-> progress, retryAttempt |-> _retryAttempt,
     cid |-> cid, error |-> _error]

BlockchainProgress(status, txHash, _error) ==
    [status |-> status, txHash |-> txHash, error |-> _error]

BlockchainData(txHash, _ipfsCid) == [txHash |-> txHash, ipfsCID |-> _ipfsCid]

\* signatureData and blockchainData of the parent before onDocumentSigned and
\* onStored: null
NoSignatureData == SignatureData(EmptyBytes, 0, Null)

NoBlockchainData == BlockchainData(NoTx, Null)

\* One call the run made outside the page
Call(fn, arg) == [fn |-> fn, arg |-> arg]

\* The state of the page when it is mounted (the useState initial values),
\* with no run started
ComponentMounted ==
    /\ isProcessing = FALSE
    /\ error = Null
    /\ signStatus = "idle"
    /\ ipfsStatus = "idle"
    /\ blockchainStatus = "idle"
    /\ ipfsProgress = IPFSProgress("idle", 0, NoAttempt, Null, Null)
    /\ blockchainProgress = BlockchainProgress("idle", NoTx, Null)
    /\ blockchainData = NoBlockchainData
    /\ pc = "idle"
    /\ retryAttempt = 0
    /\ errorMessage = Null
    /\ signature = NoSignatureData
    /\ ipfsCid = Null
    /\ calls = <<>>

(***************************************************************************)
(* The verification page: values.                                          *)
(***************************************************************************)
\* NETWORKS.anvil.chainId, NETWORKS.sepolia.chainId
AnvilChainId == 31337
SepoliaChainId == 11155111
ChainIds == {AnvilChainId, SepoliaChainId}

\* const ENS_SUPPORTED_CHAINS = [1, 11155111]
ENS_SUPPORTED_CHAINS == {1, SepoliaChainId}

\* What can be typed as the signer, and what resolveENSName returns: a text
\* that spells an address (with the checksum capitals, all in lower case, or
\* with capitals that are not the checksum), an ENS name, any other text,
\* nothing but blanks; null
Text(kind, value, form) == [kind |-> kind, value |-> value, form |-> form]

AddressText(a, form) == Text("address", a, form)

NullText == Text("null", Null, "lower")

EnsNames == {"alice.eth", "nobody.eth"}

SignerInputs ==
    { AddressText(user1, form) : form \in {"checksum", "lower", "mixed"} }
    \cup { AddressText(user2, "checksum") }
    \cup { Text("ens", n, "lower") : n \in EnsNames }
    \cup { Text("other", "not an address", "lower"), Text("blank", " ", "lower") }

\* String.prototype.trim
trim(s) == IF s.kind = "blank" THEN Text("blank", "", "lower") ELSE s

\* String.prototype.toLowerCase
toLowerCase(s) == [s EXCEPT !.form = "lower"]

\* ethers.isAddress: 40 hex digits, all of one case or with the checksum capitals
isAddress(s) == s.kind = "address" /\ s.form \in {"checksum", "lower"}

\* An address as ethers returns it from the chain: with the checksum capitals
getAddress(a) == AddressText(a, "checksum")

\* The ENS registry of the chain: provider.resolveName
resolveName(name) == IF name = "alice.eth" THEN getAddress(user1) ELSE NullText

\* getENSProvider(chainId): is there a provider
getENSProvider(_chainId) == _chainId \in ENS_SUPPORTED_CHAINS

\* A File: its name and its bytes; no file
File(name, bytes) == [name |-> name, bytes |-> bytes]

NoFile == File("", <<>>)

FileNames == {"document.pdf", "copy.pdf"}

\* The files that can be selected: one name, every content
VerifierFiles == { File("document.pdf", <<h>>) : h \in Hashes }

\* The files of every name and content
NamedFiles == { File(name, <<h>>) : name \in FileNames, h \in Hashes }

\* ethers.keccak256 of the bytes: one hash per content
keccak256(bytes) == bytes[1]

\* ethers.toUtf8Bytes, and what keccak256 makes of a content hash joined with
\* the hash of a name
toUtf8Bytes(name) == IF name = "document.pdf" THEN <<0>> ELSE <<1>>

calculateCombinedHash(values) == (values[1] + values[2]) % (MaxHash + 1)

\* HashUtils.getFileHash: the hash of the name and the content. Not used by
\* the pages; as a faulty variant of calculateFileHash
getFileHash(_file) ==
    calculateCombinedHash(<<keccak256(_file.bytes), keccak256(toUtf8Bytes(_file.name))>>)

\* HashUtils.calculateFileHash
calculateFileHash(_file) == keccak256(_file.bytes)

\* verificationResult, and null
VerificationResult(isValid, documentInfo, _error) ==
    [isValid |-> isValid, documentInfo |-> documentInfo, error |-> _error]

NoResult == [isValid |-> FALSE, documentInfo |-> <<>>, error |-> "no result"]

\* The messages of handleVerify
ResolutionError == "Invalid address or ENS name not found. Please check and try again."
NotInRegistry == "Document not found in registry. It may not have been signed and stored yet."
NotInBlockchain == "Document not found in blockchain"
SignerMismatch == "Signer address does not match. The document was signed by a different address."
ContractError == "Contract error: Please make sure the contract is deployed and Anvil is running."
CannotConnect == "Network error: Cannot connect to Anvil. Make sure it's running on http://localhost:8545"
VerificationFailed == "Verification failed"

\* What the catch of handleVerify reports for an error thrown by a call
CaughtMessages == {ContractError, CannotConnect, VerificationFailed}

\* The state of the verification page when it is mounted
VerifierMounted ==
    /\ isVerifying = FALSE
    /\ verificationResult = NoResult
    /\ vpc = "idle"
    /\ resolvedAddress = NullText
    /\ fileHash = NoHash
    /\ consulted = <<>>
    /\ verifyStart = 0
    /\ addressCache = [k \in ChainIds \X EnsNames |-> <<>>]

\* The registry on its own: the pages are not used
(***************************************************************************)
(* The stepper: its state and its reducer.                                 *)
(***************************************************************************)
StepperState(currentStep, stepStatuses, fd, sd, bd, confirmedReading, ip, bp) ==
    [currentStep |-> currentStep, stepStatuses |-> stepStatuses,
     documentData |-> [fileData |-> fd, signatureData |-> sd, blockchainData |-> bd],
     confirmedReading |-> confirmedReading,
     ipfsProgress |-> ip, blockchainProgress |-> bp]

\* documentData: {} has no file, no signature data and no blockchain data
initialState ==
    StepperState("upload", [upload |-> "active", sign |-> "pending"],
                 NoFile, NoSignatureData, NoBlockchainData, FALSE,
                 IPFSProgress("idle", 0, NoAttempt, Null, Null),
                 BlockchainProgress("idle", NoTx, Null))

StepperAction(type, payload) == [type |-> type, payload |-> payload]

\* Faulty variant of the reducer: REMOVE_FILE removes the file only
stepperReducer_keepsRest(_state, action) ==
    IF action.type = "SET_CURRENT_STEP"
    THEN [_state EXCEPT !.currentStep = action.payload,
            !.stepStatuses =
                [upload |-> IF action.payload = "upload" THEN "active" ELSE "completed",
                 sign |-> IF action.payload = "sign" THEN "active" ELSE "pending"]]
    ELSE IF action.type = "SET_STEP_STATUS"
    THEN [_state EXCEPT !.stepStatuses[action.payload.step] = action.payload.status]
    ELSE IF action.type = "SET_FILE_DATA"
    THEN [_state EXCEPT !.documentData.fileData = action.payload]
    ELSE IF action.type = "SET_SIGNATURE_DATA"
    THEN [_state EXCEPT !.documentData.signatureData = action.payload]
    ELSE IF action.type = "SET_BLOCKCHAIN_DATA"
    THEN [_state EXCEPT !.documentData.blockchainData = action.payload]
    ELSE IF action.type = "SET_CONFIRMED_READING"
    THEN [_state EXCEPT !.confirmedReading = action.payload]
    ELSE IF action.type = "REMOVE_FILE"
    THEN [_state EXCEPT !.documentData.fileData = NoFile]
    ELSE IF action.type = "REMOVE_SIGNATURE"
    THEN [_state EXCEPT !.currentStep = "sign",
            !.documentData.signatureData = NoSignatureData,
            !.documentData.blockchainData = NoBlockchainData,
            !.stepStatuses.sign = "active"]
    ELSE IF action.type = "RESET_STEPPER"
    THEN initialState
    ELSE _state

stepperReducer(_state, action) ==
    IF action.type = "SET_CURRENT_STEP"
    THEN [_state EXCEPT !.currentStep = action.payload,
            !.stepStatuses =
                [upload |-> IF action.payload = "upload" THEN "active" ELSE "completed",
                 sign |-> IF action.payload = "sign" THEN "active" ELSE "pending"]]
    ELSE IF action.type = "SET_STEP_STATUS"
    THEN [_state EXCEPT !.stepStatuses[action.payload.step] = action.payload.status]
    ELSE IF action.type = "SET_FILE_DATA"
    THEN [_state EXCEPT !.documentData.fileData = action.payload]
    ELSE IF action.type = "SET_SIGNATURE_DATA"
    THEN [_state EXCEPT !.documentData.signatureData = action.payload]
    ELSE IF action.type = "SET_BLOCKCHAIN_DATA"
    THEN [_state EXCEPT !.documentData.blockchainData = action.payload]
    ELSE IF action.type = "SET_CONFIRMED_READING"
    THEN [_state EXCEPT !.confirmedReading = action.payload]
    ELSE IF action.type = "REMOVE_FILE"
    THEN initialState
    ELSE IF action.type = "REMOVE_SIGNATURE"
    THEN [_state EXCEPT !.currentStep = "sign",
            !.documentData.signatureData = NoSignatureData,
            !.documentData.blockchainData = NoBlockchainData,
            !.stepStatuses.sign = "active"]
    ELSE IF action.type = "RESET_STEPPER"
    THEN initialState
    ELSE _state

\* The callbacks of DocumentSignerStepper, by the state their dispatches
\* lead to
goToStep(_state, step) == stepperReducer(_state, StepperAction("SET_CURRENT_STEP", step))

handleFileReady(_state, _fileData) ==
    stepperReducer(_state, StepperAction("SET_FILE_DATA", _fileData))

handleRemoveFile(_state) == stepperReducer(_state, StepperAction("REMOVE_FILE", Null))

handleContinueToSign(_state) == goToStep(_state, "sign")

handleDocumentSigned(_state, signatureData) ==
    stepperReducer(_state, StepperAction("SET_SIGNATURE_DATA", signatureData))

handleBackToUpload(_state) == goToStep(_state, "upload")

handleStored(_state, _blockchainData) ==
    stepperReducer(
        stepperReducer(_state, StepperAction("SET_BLOCKCHAIN_DATA", _blockchainData)),
        StepperAction("SET_STEP_STATUS", [step |-> "sign", status |-> "completed"]))

handleSignAnother(_state) == stepperReducer(_state, StepperAction("RESET_STEPPER", Null))

handleSetConfirmedReading(_state, confirmed) ==
    stepperReducer(_state, StepperAction("SET_CONFIRMED_READING", confirmed))

\* The stepper when it is mounted
StepperMounted ==
    /\ state = initialState
    /\ step1File = NoFile

(***************************************************************************)
(* The wallet and network providers: values.                               *)
(***************************************************************************)
\* Object.keys(NETWORKS)
NetworkKeys == {"anvil", "sepolia"}

\* NETWORKS[key].name
NetworkName(key) == IF key = "anvil" THEN "Anvil Local" ELSE "Sepolia Testnet"

\* NETWORKS[key].chainId
NetworkChainId(key) == IF key = "anvil" THEN AnvilChainId ELSE SepoliaChainId

\* The default of NEXT_PUBLIC_ANVIL_MNEMONIC
JunkMnemonic == "test test test test test test test test test test test junk"

\* What NEXT_PUBLIC_SEPOLIA_MNEMONIC can be: not set, a phrase of its own,
\* the phrase of anvil
SepoliaMnemonics == {"", "sepolia phrase", JunkMnemonic}

\* One entry of deriveWallets
HDWallet(address, privateKey, index) ==
    [address |-> address, privateKey |-> privateKey, index |-> index]

\* deriveWallets(mnemonic): the wallets of the derivation paths
\* m/44'/60'/0'/0/i, the first two of them; none without a mnemonic
deriveWallets(mnemonic) ==
    IF mnemonic = "" THEN <<>>
    ELSE IF mnemonic = JunkMnemonic
    THEN <<HDWallet(user1, "key of user1", 0), HDWallet(user2, "key of user2", 1)>>
    ELSE <<HDWallet("user3", "key of user3", 0), HDWallet("user4", "key of user4", 1)>>

\* useMemo(() => deriveWallets(networkConfig.mnemonic))
wallets == deriveWallets(mnemonics[currentNetwork])

\* wallets[i] of the source, whose arrays start at 0
WalletAt(i) == wallets[i + 1]

\* new ethers.Wallet(privateKey).signMessage(message): 65 bytes that only
\* this key produces
SignedBy(privateKey, message) == [len |-> 65, data |-> privateKey]

\* ethers.verifyMessage: the address of the key that made the signature
verifyMessage(_signature) ==
    CHOOSE a \in {user1, user2, "user3", "user4"} :
        \E mnemonic \in SepoliaMnemonics \ {""} :
            \E k \in 1..Len(deriveWallets(mnemonic)) :
                /\ deriveWallets(mnemonic)[k].privateKey = _signature.data
                /\ deriveWallets(mnemonic)[k].address = a

NoMnemonic == "No mnemonic configured"
InvalidWalletIndex == "Invalid wallet index"

\* One call made to the providers
WalletCall(fn, walletIndex, networkKey) ==
    [fn |-> fn, walletIndex |-> walletIndex, networkKey |-> networkKey]

\* The providers when they are mounted on the default network, with the
\* default configuration
ProvidersMounted ==
    /\ currentNetwork = "anvil"
    /\ currentWalletIndex = 0
    /\ walletError = Null
    /\ mnemonics = [key \in NetworkKeys |-> IF key = "anvil" THEN JunkMnemonic ELSE ""]
    /\ walletCall = WalletCall("mount", 0, "")

NoClient ==
    /\ ProvidersMounted
    /\ StepperMounted
    /\ account = Null
    /\ isConnected = FALSE
    /\ contract = FALSE
    /\ pinataJwt = FALSE
    /\ file = "pdf"
    /\ artifact = NoFile
    /\ documentHash = NoHash
    /\ ComponentMounted
    /\ verifierFile = NoFile
    /\ signerAddress = Text("blank", "", "lower")
    /\ chainId = AnvilChainId
    /\ VerifierMounted

(***************************************************************************)
(* The registry used by one caller at a time: every call is mined before   *)
(* the next one is sent.                                                   *)
(***************************************************************************)
Init ==
    /\ documents = [h \in Hashes |-> EmptyDocument]
    /\ documentHashes = <<>>
    /\ now \in 1..MaxTime
    /\ last = Receipt("constructor", Ok, "", <<>>)
    /\ committed = <<>>
    /\ pool = <<>>
    /\ receipts = <<>>
    /\ NoClient

Store ==
    /\ \E _hash \in Hashes, _timestamp \in Timestamps, _signature \in Signatures,
          _signer \in Addresses, _ipfsCid \in Cids :
            storeDocumentHash(_hash, _timestamp, _signature, _signer, _ipfsCid)
    /\ UNCHANGED <<pool, receipts, clientVars>>

Verify ==
    /\ \E _hash \in Hashes, _signer \in Addresses, _signature \in Signatures :
            verifyDocument(_hash, _signer, _signature)
    /\ UNCHANGED <<pool, receipts, clientVars>>

\* A later block: block.timestamp grows
Tick ==
    /\ now < MaxTime
    /\ now' = now + 1
    /\ UNCHANGED <<documents, documentHashes, last, committed, pool, receipts, clientVars>>

Next == Store \/ Verify \/ Tick

Spec == Init /\ [][Next]_vars

(***************************************************************************)
(* The ledger: transactions that are each valid when they are submitted    *)
(* wait in the pool, and are mined one at a time in any order.             *)
(***************************************************************************)
RaceIds == 1..MaxRace

\* A transaction that would be accepted by an empty registry at time t
ValidTxs(t) ==
    { tx \in [hash : Hashes, timestamp : 1..t, signature : Signatures,
              signer : Addresses, ipfsCid : Cids] :
        ValidSignature(tx.signature) /\ ValidSigner(tx.signer) }

InitRace ==
    /\ documents = [h \in Hashes |-> EmptyDocument]
    /\ documentHashes = <<>>
    /\ now = MaxTime
    /\ last = Receipt("constructor", Ok, "", <<>>)
    /\ committed = <<>>
    /\ pool \in [RaceIds -> ValidTxs(MaxTime)]
    /\ receipts = [i \in RaceIds |-> Pending]
    /\ NoClient

Mine(i) ==
    /\ receipts[i] = Pending
    /\ storeDocumentHash(pool[i].hash, pool[i].timestamp, pool[i].signature,
                         pool[i].signer, pool[i].ipfsCid)
    /\ receipts' = [receipts EXCEPT ![i] = last'.status]
    /\ UNCHANGED <<pool, clientVars>>

NextRace == \E i \in RaceIds : Mine(i)

SpecRace == InitRace /\ [][NextRace]_vars

(***************************************************************************)
(* The ledger with two calls of any arguments, valid or not, submitted at  *)
(* the same block time to a registry that an earlier caller may have       *)
(* written to; they are mined in either order.                             *)
(***************************************************************************)
PairIds == {1, 2}

AnyTxs ==
    [hash : Hashes, timestamp : Timestamps,
     signature : {EmptyBytes, [len |-> 1, data |-> "s"]},
     signer : {NullAddress, user1}, ipfsCid : Cids]

InitPair ==
    /\ documents = [h \in Hashes |-> EmptyDocument]
    /\ documentHashes = <<>>
    /\ now = MaxTime
    /\ last = Receipt("constructor", Ok, "", <<>>)
    /\ committed = <<>>
    /\ pool \in [PairIds -> AnyTxs]
    /\ receipts = [i \in PairIds |-> Pending]
    /\ NoClient

\* An earlier caller stored a document before the two calls are mined
Earlier ==
    /\ documentHashes = <<>>
    /\ \A i \in PairIds : receipts[i] = Pending
    /\ \E _hash \in Hashes :
            storeDocumentHash(_hash, now, [len |-> MaxSignatureLength, data |-> "test signature"],
                              user2, EmptyCid)
    /\ UNCHANGED <<pool, receipts, clientVars>>

MinePair == \E i \in PairIds : Mine(i)

NextPair == Earlier \/ MinePair

SpecPair == InitPair /\ [][NextPair]_vars

(***************************************************************************)
(* The signing page (Step2SignDocument): one run of handleSignAndStore     *)
(* signs, uploads to IPFS and stores on the registry. The handler is       *)
(* asynchronous: each action below runs it from one await to the next.     *)
(* account, isConnected, contract and documentHash are read from the       *)
(* render in which the run was started.                                    *)
(***************************************************************************)
runLocals == <<retryAttempt, errorMessage, signature, ipfsCid>>

environment == <<walletVars, stepperVars, account, isConnected, contract, pinataJwt, file, artifact>>

\* Faulty variant of the end of a failed run: the finally is left out
RunFails_noFinally(message) ==
    /\ error' = message
    /\ pc' = "done"
    /\ UNCHANGED isProcessing

\* catch and finally of handleSignAndStore
RunFails(message) ==
    /\ error' = message
    /\ isProcessing' = FALSE
    /\ pc' = "done"

\* Faulty variant of the retry test: one retry too many
ShouldRetry_inclusive(_retryAttempt) == _retryAttempt <= maxRetries

\* if (retryAttempt < UPLOAD_CONFIG.ipfs.maxRetries)
ShouldRetry(_retryAttempt) == _retryAttempt < maxRetries

\* Faulty variant of the test of the transaction hash: never missing
TxHashMissing_ignored(txHash) == FALSE

\* if (!txHash)
TxHashMissing(txHash) == txHash = NoTx

\* Faulty variant of the start of an attempt: the counter is not reported
BeginUpload_noCounter(_retryAttempt) ==
    /\ ipfsStatus' = "loading"
    /\ ipfsProgress' = IPFSProgress("uploading", 0, 0, Null, Null)
    /\ retryAttempt' = _retryAttempt
    /\ calls' = Append(calls, Call("uploadToIPFS", _retryAttempt))
    /\ pc' = "uploadToIPFS"

\* uploadToIPFSWithRetry(_retryAttempt) up to its await of uploadToIPFS
BeginUpload(_retryAttempt) ==
    /\ ipfsStatus' = "loading"
    /\ ipfsProgress' = IPFSProgress("uploading", 0, _retryAttempt, Null, Null)
    /\ retryAttempt' = _retryAttempt
    /\ calls' = Append(calls, Call("uploadToIPFS", _retryAttempt))
    /\ pc' = "uploadToIPFS"

\* The click on "Sign and Store Document", a button that is rendered while
\* nothing is stored and is disabled while a run is in progress, the wallet
\* is not connected or the hash is not calculated: handleSignAndStore, and
\* signDocument up to its await of signMessage
handleSignAndStore ==
    /\ pc \in {"idle", "done"}
    /\ ~isProcessing
    /\ blockchainData = NoBlockchainData
    /\ isConnected
    /\ documentHash # NoHash
    /\ IF account = Null \/ ~isConnected
       THEN /\ error' = WalletNotConnected
            /\ pc' = "done"
            /\ calls' = <<>>
            /\ UNCHANGED <<isProcessing, signStatus, ipfsStatus, blockchainStatus>>
       ELSE IF documentHash = NoHash
       THEN /\ error' = HashNotCalculated
            /\ pc' = "done"
            /\ calls' = <<>>
            /\ UNCHANGED <<isProcessing, signStatus, ipfsStatus, blockchainStatus>>
       ELSE /\ isProcessing' = TRUE
            /\ error' = Null
            /\ ipfsStatus' = "idle"
            /\ blockchainStatus' = "idle"
            /\ signStatus' = "loading"
            /\ calls' = <<Call("signMessage", documentHash)>>
            /\ pc' = "signMessage"
    /\ UNCHANGED <<ipfsProgress, blockchainProgress, blockchainData, runLocals>>
    /\ UNCHANGED <<registryVars, environment, documentHash, verifierVars>>

\* signMessage and getBlockchainTimestamp settle: the rest of signDocument,
\* then uploadToIPFSWithRetry() up to its await. The timestamp is the one of
\* the latest block or, when the block cannot be read, the clock of the
\* browser, which may be ahead of the chain.
signDocument ==
    /\ pc = "signMessage"
    /\ \/ /\ signStatus' = "error"
          /\ RunFails(SignFailed)
          /\ UNCHANGED <<ipfsStatus, ipfsProgress, calls, runLocals>>
       \/ /\ \E _timestamp \in {now, now + 1} :
                signature' = SignatureData(WalletSignature, _timestamp, account)
          /\ signStatus' = "ok"
          /\ BeginUpload(0)
          /\ UNCHANGED <<error, isProcessing, errorMessage, ipfsCid>>
    /\ UNCHANGED <<blockchainStatus, blockchainProgress, blockchainData>>
    /\ UNCHANGED <<registryVars, environment, documentHash, verifierVars>>

\* uploadToIPFS settles: the rest of uploadToIPFSWithRetry and, when it
\* returns a CID, storeOnBlockchain up to its await of storeDocumentHash
uploadToIPFSWithRetry ==
    /\ pc = "uploadToIPFS"
    /\ \E result \in uploadToIPFS_results(file) :
          IF result.ok
          THEN /\ ipfsProgress' = IPFSProgress("success", 100, NoAttempt, result.cid, Null)
               /\ ipfsStatus' = "ok"
               /\ ipfsCid' = result.cid
               /\ blockchainStatus' = "loading"
               /\ blockchainProgress' = BlockchainProgress("sending", NoTx, Null)
               /\ pc' = "storeDocumentHash"
               /\ UNCHANGED <<error, isProcessing, errorMessage, calls>>
          ELSE /\ errorMessage' = result.error.message
               /\ IF ShouldRetry(retryAttempt)
                  THEN /\ calls' = Append(calls, Call("setTimeout", retryDelay))
                       /\ pc' = "retryDelay"
                       /\ UNCHANGED <<error, isProcessing, ipfsStatus, ipfsProgress>>
                  ELSE /\ ipfsProgress' = IPFSProgress("error", 0, retryAttempt, Null,
                                                       result.error.message)
                       /\ ipfsStatus' = "error"
                       /\ RunFails(result.error.message)
                       /\ UNCHANGED calls
               /\ UNCHANGED <<ipfsCid, blockchainStatus, blockchainProgress>>
    /\ UNCHANGED <<signStatus, blockchainData, retryAttempt, signature>>
    /\ UNCHANGED <<registryVars, environment, documentHash, verifierVars>>

\* The timer of retryDelay fires: return uploadToIPFSWithRetry(retryAttempt + 1)
retryDelayElapsed ==
    /\ pc = "retryDelay"
    /\ BeginUpload(retryAttempt + 1)
    /\ UNCHANGED <<isProcessing, error, signStatus, blockchainStatus, blockchainProgress,
                   blockchainData, errorMessage, signature, ipfsCid>>
    /\ UNCHANGED <<registryVars, environment, documentHash, verifierVars>>

\* Faulty variant of the catch of storeOnBlockchain: the stage is not marked
StoreFails_unmarked(message) ==
    /\ blockchainProgress' = BlockchainProgress("error", NoTx, message)
    /\ UNCHANGED blockchainStatus
    /\ RunFails(message)

\* catch of storeOnBlockchain, then catch and finally of handleSignAndStore
StoreFails(message) ==
    /\ blockchainProgress' = BlockchainProgress("error", NoTx, message)
    /\ blockchainStatus' = "error"
    /\ RunFails(message)

\* storeDocumentHash of useContract returned txHash
StoreReturned(txHash) ==
    IF TxHashMissing(txHash)
    THEN StoreFails(NoTxHash)
    ELSE /\ blockchainProgress' = BlockchainProgress("confirming", txHash, Null)
         /\ pc' = "confirming"
         /\ UNCHANGED <<blockchainStatus, error, isProcessing>>

\* storeDocumentHash of useContract settles: the rest of storeOnBlockchain up
\* to its wait for the confirmations. The hook returns undefined without
\* calling the contract when the contract is not loaded or the wallet is not
\* connected; it throws what the call throws: the revert reason, or a
\* transport error, before the transaction is mined or while waiting for it.
storeOnBlockchain ==
    /\ pc = "storeDocumentHash"
    /\ IF ~contract \/ ~isConnected \/ account = Null
       THEN /\ StoreReturned(NoTx)
            /\ UNCHANGED <<registryVars, calls>>
       ELSE /\ calls' = Append(calls, Call("storeDocumentHash",
                        Tx(documentHash, signature.timestamp, signature.signature,
                           signature.signerAddress, ipfsCid)))
            /\ \/ /\ StoreFails(TransportError)
                  /\ UNCHANGED registryVars
               \/ /\ storeDocumentHash(documentHash, signature.timestamp,
                                        signature.signature, signature.signerAddress, ipfsCid)
                  /\ UNCHANGED <<pool, receipts>>
                  /\ IF last'.status = Ok
                     THEN \/ StoreReturned(Len(committed'))
                          \/ StoreFails(TransportError)
                     ELSE StoreFails(last'.status)
    /\ UNCHANGED <<signStatus, ipfsStatus, ipfsProgress, blockchainData, runLocals>>
    /\ UNCHANGED <<environment, documentHash, verifierVars>>

\* The wait for the confirmations ends: the rest of storeOnBlockchain, then
\* onStored(data) and finally of handleSignAndStore
confirmationWait ==
    /\ pc = "confirming"
    /\ blockchainProgress' = [blockchainProgress EXCEPT !.status = "confirmed"]
    /\ blockchainStatus' = "ok"
    /\ blockchainData' = BlockchainData(blockchainProgress.txHash, ipfsCid)
    /\ isProcessing' = FALSE
    /\ pc' = "done"
    /\ UNCHANGED <<error, signStatus, ipfsStatus, ipfsProgress, calls, runLocals>>
    /\ UNCHANGED <<registryVars, environment, documentHash, verifierVars>>

\* Another caller stores the document of the page
OtherCaller ==
    /\ documentHash # NoHash
    /\ storeDocumentHash(documentHash, now,
                         [len |-> MaxSignatureLength, data |-> "test signature"],
                         user2, EmptyCid)
    /\ UNCHANGED <<pool, receipts, clientVars>>

\* Messages of the effect that calculates the hash
HashFailed == "Failed to calculate document hash"

\* The effect of the page when it is mounted without fileData.hash:
\* calculateHash, which keeps the hash in fileData too, or reports that the
\* file could not be read
calculateHash ==
    /\ documentHash = NoHash
    /\ error # HashFailed
    /\ pc = "idle"
    /\ \/ documentHash' = calculateFileHash(artifact) /\ UNCHANGED error
       \/ error' = HashFailed /\ UNCHANGED documentHash
    /\ UNCHANGED <<isProcessing, signStatus, ipfsStatus, blockchainStatus, ipfsProgress,
                   blockchainProgress, blockchainData, pc, calls, runLocals>>
    /\ UNCHANGED <<registryVars, environment, verifierVars>>

\* The click on "Back to Upload", a button that is disabled while a run is
\* in progress: the parent shows the upload step and unmounts the page;
\* "Continue" mounts it again, its state the initial one
onBack ==
    /\ ~isProcessing
    /\ blockchainData = NoBlockchainData
    /\ isProcessing' = FALSE
    /\ error' = Null
    /\ signStatus' = "idle"
    /\ ipfsStatus' = "idle"
    /\ blockchainStatus' = "idle"
    /\ ipfsProgress' = IPFSProgress("idle", 0, NoAttempt, Null, Null)
    /\ blockchainProgress' = BlockchainProgress("idle", NoTx, Null)
    /\ pc' = "idle"
    /\ retryAttempt' = 0
    /\ errorMessage' = Null
    /\ signature' = NoSignatureData
    /\ ipfsCid' = Null
    /\ calls' = <<>>
    /\ UNCHANGED blockchainData
    /\ UNCHANGED <<registryVars, environment, documentHash, verifierVars>>

InitRun ==
    /\ documents = [h \in Hashes |-> EmptyDocument]
    /\ documentHashes = <<>>
    /\ now \in 1..MaxTime
    /\ last = Receipt("constructor", Ok, "", <<>>)
    /\ committed = <<>>
    /\ pool = <<>>
    /\ receipts = <<>>
    /\ isConnected \in BOOLEAN
    /\ account = IF isConnected THEN user1 ELSE Null
    /\ contract \in BOOLEAN
    /\ pinataJwt \in BOOLEAN
    /\ file \in Files
    /\ artifact \in VerifierFiles
    /\ documentHash \in {NoHash, calculateFileHash(artifact)}
    /\ ProvidersMounted
    /\ StepperMounted
    /\ ComponentMounted
    /\ verifierFile = NoFile
    /\ signerAddress = Text("blank", "", "lower")
    /\ chainId = AnvilChainId
    /\ VerifierMounted

NextRun ==
    \/ calculateHash
    \/ handleSignAndStore
    \/ signDocument
    \/ uploadToIPFSWithRetry
    \/ retryDelayElapsed
    \/ storeOnBlockchain
    \/ confirmationWait
    \/ onBack
    \/ OtherCaller
    \/ Tick

SpecRun == InitRun /\ [][NextRun]_vars

\* The run page when every call it awaits settles: signMessage returns or
\* throws, every upload attempt returns or throws (within uploadTimeout), the
\* timer of the retry wait fires, storeDocumentHash returns or throws, and the
\* wait for the confirmations ends; each of these steps moves pc
RunSettles ==
    /\ WF_pc(signDocument)
    /\ WF_pc(uploadToIPFSWithRetry)
    /\ WF_pc(retryDelayElapsed)
    /\ WF_pc(storeOnBlockchain)
    /\ WF_pc(confirmationWait)

SpecRunFair == SpecRun /\ RunSettles

(***************************************************************************)
(* The verification page (DocumentVerifier): handleVerify resolves the      *)
(* signer that was typed, hashes the file and reads the registry. Each      *)
(* action below runs the handler from one await to the next.               *)
(***************************************************************************)
verifierInputs == <<verifierFile, signerAddress, chainId>>

\* Faulty variant of resolveENSName: what was typed is taken as it is
resolveENSName_unchecked(nameOrAddress, _chainId) == {nameOrAddress}

\* Faulty variant of resolveENSName: a cached null is not returned, the
\* provider is asked again
resolveENSName_retriesNull(nameOrAddress, _chainId) ==
    IF nameOrAddress.kind = "blank" THEN {NullText}
    ELSE IF isAddress(nameOrAddress) THEN {nameOrAddress}
    ELSE IF nameOrAddress.kind # "ens" THEN {NullText}
    ELSE IF /\ addressCache[<<_chainId, nameOrAddress.value>>] # <<>>
            /\ addressCache[<<_chainId, nameOrAddress.value>>] # <<NullText>>
         THEN {addressCache[<<_chainId, nameOrAddress.value>>][1]}
    ELSE IF ~getENSProvider(_chainId) THEN {NullText}
    ELSE {resolveName(nameOrAddress.value), NullText}

\* resolveENSName(nameOrAddress, chainId): the values it can return; null for
\* what is neither an address nor a name that resolves
resolveENSName(nameOrAddress, _chainId) ==
    IF nameOrAddress.kind = "blank" THEN {NullText}
    ELSE IF isAddress(nameOrAddress) THEN {nameOrAddress}
    ELSE IF nameOrAddress.kind # "ens" THEN {NullText}
    ELSE IF addressCache[<<_chainId, nameOrAddress.value>>] # <<>>
         THEN {addressCache[<<_chainId, nameOrAddress.value>>][1]}
    ELSE IF ~getENSProvider(_chainId) THEN {NullText}
    ELSE {resolveName(nameOrAddress.value), NullText}

\* resolveENSName asks the provider, and keeps the answer in addressCache
AsksProvider(nameOrAddress, _chainId) ==
    /\ ~isAddress(nameOrAddress)
    /\ nameOrAddress.kind = "ens"
    /\ addressCache[<<_chainId, nameOrAddress.value>>] = <<>>
    /\ getENSProvider(_chainId)

\* setVerificationResult(result), then finally of handleVerify
Reports(result) ==
    /\ verificationResult' = result
    /\ isVerifying' = FALSE
    /\ vpc' = "idle"

\* A call of the contract by a hook of useContract
Consults(fn) == consulted' = Append(consulted, [fn |-> fn, at |-> Len(committed)])

\* documentInfo.signer.toLowerCase() === resolvedAddress.toLowerCase()
SameSigner(actual, expected) == toLowerCase(actual) = toLowerCase(expected)

\* The click on "Verify": handleVerify up to its await of resolveENSName
handleVerify ==
    /\ vpc = "idle"
    /\ ~isVerifying
    /\ verifierFile # NoFile
    /\ trim(signerAddress).kind # "blank"
    /\ isVerifying' = TRUE
    /\ verificationResult' = NoResult
    /\ vpc' = "resolveENSName"
    /\ resolvedAddress' = NullText
    /\ fileHash' = NoHash
    /\ consulted' = <<>>
    /\ verifyStart' = Len(committed)
    /\ UNCHANGED <<addressCache, verifierInputs, registryVars, runVars>>

\* resolveENSName settles; when it returned an address, calculateFileHash and
\* handleVerify up to its await of isDocumentStored
verifyResolved ==
    /\ vpc = "resolveENSName"
    /\ \E r \in resolveENSName(trim(signerAddress), chainId) :
          /\ addressCache' =
                IF AsksProvider(trim(signerAddress), chainId)
                THEN [addressCache EXCEPT ![<<chainId, signerAddress.value>>] = <<r>>]
                ELSE addressCache
          /\ IF r = NullText
             THEN /\ Reports(VerificationResult(FALSE, <<>>, ResolutionError))
                  /\ UNCHANGED <<resolvedAddress, fileHash>>
             ELSE /\ resolvedAddress' = r
                  /\ fileHash' = calculateFileHash(verifierFile)
                  /\ vpc' = "isDocumentStored"
                  /\ UNCHANGED <<isVerifying, verificationResult>>
    /\ UNCHANGED <<consulted, verifyStart, verifierInputs, registryVars, runVars>>

\* isDocumentStored of useContract settles: false when the contract is not
\* loaded, else what the contract returns, or the error of the provider
verifyStored ==
    /\ vpc = "isDocumentStored"
    /\ IF ~contract
       THEN /\ Reports(VerificationResult(FALSE, <<>>, NotInRegistry))
            /\ UNCHANGED consulted
       ELSE /\ Consults("isDocumentStored")
            /\ \/ \E message \in CaughtMessages :
                      Reports(VerificationResult(FALSE, <<>>, message))
               \/ IF isDocumentStored(fileHash).ret
                  THEN /\ vpc' = "getDocumentInfo"
                       /\ UNCHANGED <<isVerifying, verificationResult>>
                  ELSE Reports(VerificationResult(FALSE, <<>>, NotInRegistry))
    /\ UNCHANGED <<resolvedAddress, fileHash, addressCache, verifyStart>>
    /\ UNCHANGED <<verifierInputs, registryVars, runVars>>

\* getDocumentInfo of useContract settles: null when the contract is not
\* loaded, else the record the contract returns, the signer spelled with the
\* checksum capitals; the rest of handleVerify
verifyInfo ==
    /\ vpc = "getDocumentInfo"
    /\ IF ~contract
       THEN /\ Reports(VerificationResult(FALSE, <<>>, NotInBlockchain))
            /\ UNCHANGED consulted
       ELSE /\ Consults("getDocumentInfo")
            /\ \/ \E message \in CaughtMessages :
                      Reports(VerificationResult(FALSE, <<>>, message))
               \/ LET info == getDocumentInfo(fileHash) IN
                  IF info.status # Ok
                  THEN Reports(VerificationResult(FALSE, <<>>, info.status))
                  ELSE LET documentInfo == [info.ret EXCEPT !.signer = getAddress(@)]
                           isValid == SameSigner(documentInfo.signer, resolvedAddress)
                       IN  Reports(VerificationResult(isValid, <<documentInfo>>,
                                       IF isValid THEN Null ELSE SignerMismatch))
    /\ UNCHANGED <<resolvedAddress, fileHash, addressCache, verifyStart>>
    /\ UNCHANGED <<verifierInputs, registryVars, runVars>>

\* A signer stores a document on the registry
Commit ==
    /\ \E _hash \in Hashes, _signer \in {user1, user2} :
            storeDocumentHash(_hash, now, [len |-> 1, data |-> "s"], _signer, EmptyCid)
    /\ UNCHANGED <<pool, receipts, clientVars>>

\* Anyone calls verifyDocument of the contract
VerifyOnChain ==
    /\ \E _hash \in Hashes, _signer \in {user1, user2} :
            verifyDocument(_hash, _signer, [len |-> 1, data |-> "s"])
    /\ UNCHANGED <<pool, receipts, clientVars>>

InitVerifier ==
    /\ documents = [h \in Hashes |-> EmptyDocument]
    /\ documentHashes = <<>>
    /\ now = 1
    /\ last = Receipt("constructor", Ok, "", <<>>)
    /\ committed = <<>>
    /\ pool = <<>>
    /\ receipts = <<>>
    /\ account = Null
    /\ isConnected = FALSE
    /\ contract \in BOOLEAN
    /\ pinataJwt = FALSE
    /\ file = "pdf"
    /\ artifact = NoFile
    /\ documentHash = NoHash
    /\ currentNetwork \in NetworkKeys
    /\ currentWalletIndex = 0
    /\ walletError = Null
    /\ mnemonics = [key \in NetworkKeys |-> IF key = "anvil" THEN JunkMnemonic ELSE ""]
    /\ walletCall = WalletCall("mount", 0, "")
    /\ StepperMounted
    /\ ComponentMounted
    /\ verifierFile \in VerifierFiles \cup {NoFile}
    /\ signerAddress \in SignerInputs
    /\ chainId = NetworkChainId(currentNetwork)
    /\ VerifierMounted

NextVerifier ==
    \/ handleVerify
    \/ verifyResolved
    \/ verifyStored
    \/ verifyInfo
    \/ Commit
    \/ VerifyOnChain

SpecVerifier == InitVerifier /\ [][NextVerifier]_vars

(***************************************************************************)
(* The two pages on one registry: a file is signed and stored through the   *)
(* signing page by a connected wallet, and a file of any name and content   *)
(* is verified against that wallet's address on the verification page.      *)
(***************************************************************************)
InitFingerprint ==
    /\ documents = [h \in Hashes |-> EmptyDocument]
    /\ documentHashes = <<>>
    /\ now = 1
    /\ last = Receipt("constructor", Ok, "", <<>>)
    /\ committed = <<>>
    /\ pool = <<>>
    /\ receipts = <<>>
    /\ isConnected = TRUE
    /\ account = user1
    /\ contract = TRUE
    /\ pinataJwt = TRUE
    /\ file = "pdf"
    /\ artifact \in NamedFiles
    /\ documentHash = NoHash
    /\ ProvidersMounted
    /\ StepperMounted
    /\ ComponentMounted
    /\ verifierFile \in NamedFiles
    /\ signerAddress = AddressText(user1, "lower")
    /\ chainId = AnvilChainId
    /\ VerifierMounted

NextFingerprint ==
    \/ calculateHash
    \/ handleSignAndStore
    \/ signDocument
    \/ uploadToIPFSWithRetry
    \/ retryDelayElapsed
    \/ storeOnBlockchain
    \/ confirmationWait
    \/ handleVerify
    \/ verifyResolved
    \/ verifyStored
    \/ verifyInfo

SpecFingerprint == InitFingerprint /\ [][NextFingerprint]_vars

(***************************************************************************)
(* Properties.                                                             *)
(***************************************************************************)
CommittedHashes == { committed[i].tx.hash : i \in 1..Len(committed) }

\* The record a call of storeDocumentHash with arguments tx is to store
RecordOf(tx) == Document(tx.hash, tx.timestamp, tx.signer, tx.signature, tx.ipfsCid)

StoreReverted == last.op = "storeDocumentHash" /\ last.status # Ok

\* C1 Uniqueness: once storeDocumentHash has returned for a hash, every call of
\* it for that hash reverts with "Document already exists", whatever its
\* timestamp, signature and signer (the locator is not looked at), valid or not.
C1_Uniqueness ==
    \A h \in CommittedHashes, t \in Timestamps, s \in Signatures, a \in Addresses :
        storeDocumentHashStatus(h, t, s, a) = AlreadyExists

\* A second call for a stored hash has been made and has reverted.
C1_Witness ==
    /\ Len(committed) >= 1
    /\ last.op = "storeDocumentHash"
    /\ last.status = AlreadyExists

\* C2 Immutability and round trip: in every state after storeDocumentHash
\* returned for (f, t, e, I, l), whatever was called since, getDocumentInfo(f)
\* returns exactly (f, t, I, e, l), getDocumentSignature(f) returns e and
\* getDocumentCid(f) returns l.
C2_ImmutableRoundTrip ==
    \A i \in 1..Len(committed) :
        LET tx == committed[i].tx IN
        /\ getDocumentInfo(tx.hash) = Returns(RecordOf(tx))
        /\ getDocumentSignature(tx.hash) = Returns(tx.signature)
        /\ getDocumentCid(tx.hash) = Returns(tx.ipfsCid)

\* A record with a locator, read after a store of another hash, then a
\* verifyDocument call.
C2_Witness ==
    /\ Len(committed) = 2
    /\ committed[1].tx.ipfsCid # EmptyCid
    /\ committed[1].tx.signature # committed[2].tx.signature
    /\ last.op = "verifyDocument"

TimestampErrors == {TimestampZero, TimestampFuture}

\* C3 Timestamp bound: for a hash not yet stored, storeDocumentHash reverts with
\* a timestamp error exactly when _timestamp = 0 or _timestamp > block.timestamp;
\* _timestamp = block.timestamp is accepted; every stored record has
\* 0 < timestamp <= the block time of its commit.
C3_TimestampBound ==
    /\ \A h \in Hashes \ CommittedHashes, t \in Timestamps, s \in Signatures, a \in Addresses :
          (storeDocumentHashStatus(h, t, s, a) \in TimestampErrors) <=> (t = 0 \/ t > now)
    /\ \A h \in Hashes \ CommittedHashes, s \in Signatures, a \in Addresses :
          (s.len \in 1..MaxSignatureLength /\ a # NullAddress)
              => storeDocumentHashStatus(h, now, s, a) = Ok
    /\ \A i \in 1..Len(committed) :
          LET doc == documents[committed[i].tx.hash] IN
          0 < doc.timestamp /\ doc.timestamp <= committed[i].at

\* A record stored with the block's own time, and a later call refused for a
\* timestamp in the future.
C3_Witness ==
    /\ \E i \in 1..Len(committed) : committed[i].tx.timestamp = committed[i].at
    /\ last.op = "storeDocumentHash"
    /\ last.status = TimestampFuture

BadLength(s) == s.len = 0 \/ s.len > MaxSignatureLength

\* C4 as first stated: every call of storeDocumentHash whose signature has
\* length 0 or more than 2048 reverts with "Invalid signature".
C4_Original ==
    \A h \in Hashes, t \in Timestamps, s \in Signatures, a \in Addresses :
        BadLength(s) => storeDocumentHashStatus(h, t, s, a) = InvalidSignature

\* C4 Endorsement length, amended: a call whose signature has length 0 or more
\* than 2048 always reverts, and reverts with "Invalid signature" when the hash
\* is not stored and 0 < _timestamp <= block.timestamp (an earlier check's
\* reason is given otherwise); lengths 1 and 2048 pass the check; every stored
\* record has a signature of length 1..2048.
C4_EndorsementLength ==
    /\ \A h \in Hashes, t \in Timestamps, s \in Signatures, a \in Addresses :
          BadLength(s) =>
              /\ storeDocumentHashStatus(h, t, s, a) # Ok
              /\ (h \notin CommittedHashes /\ 0 < t /\ t <= now)
                    => storeDocumentHashStatus(h, t, s, a) = InvalidSignature
    /\ \A h \in Hashes \ CommittedHashes, t \in 1..now, s \in Signatures :
          s.len \in {1, MaxSignatureLength} => storeDocumentHashStatus(h, t, s, user1) = Ok
    /\ \A i \in 1..Len(committed) :
          documents[committed[i].tx.hash].signature.len \in 1..MaxSignatureLength

\* A record with a signature of length 2048 is stored, and a call with a
\* signature of a bad length was refused for it.
C4_Witness ==
    /\ \E i \in 1..Len(committed) : committed[i].tx.signature.len = MaxSignatureLength
    /\ last.op = "storeDocumentHash"
    /\ last.status = InvalidSignature

\* C5 as first stated: every call of storeDocumentHash whose signer is
\* address(0) reverts with "Invalid signer address".
C5_Original ==
    \A h \in Hashes, t \in Timestamps, s \in Signatures :
        storeDocumentHashStatus(h, t, s, NullAddress) = InvalidSigner

\* C5 Null endorser, amended: a call whose signer is address(0) always reverts,
\* and reverts with "Invalid signer address" when the hash is not stored,
\* 0 < _timestamp <= block.timestamp and the signature has length 1..2048 (an
\* earlier check's reason is given otherwise); no stored record has signer
\* address(0).
C5_NullEndorser ==
    /\ \A h \in Hashes, t \in Timestamps, s \in Signatures :
          /\ storeDocumentHashStatus(h, t, s, NullAddress) # Ok
          /\ (h \notin CommittedHashes /\ 0 < t /\ t <= now /\ ~BadLength(s))
                => storeDocumentHashStatus(h, t, s, NullAddress) = InvalidSigner
    /\ \A i \in 1..Len(committed) :
          documents[committed[i].tx.hash].signer # NullAddress

\* A call with signer address(0) was refused for it, after a record was stored.
C5_Witness ==
    /\ Len(committed) >= 1
    /\ last.op = "storeDocumentHash"
    /\ last.status = InvalidSigner

\* C6 Existence consistency: isDocumentStored never reverts; it returns true
\* exactly when getDocumentInfo returns, with a record whose signer is not
\* address(0); for a hash never stored it returns false and getDocumentInfo,
\* getDocumentSignature and getDocumentCid revert with "Document does not
\* exist".
C6_ExistenceConsistency ==
    \A h \in Hashes :
        /\ isDocumentStored(h).status = Ok
        /\ (isDocumentStored(h).ret = TRUE) <=>
              (/\ getDocumentInfo(h).status = Ok
               /\ getDocumentInfo(h).ret.signer # NullAddress)
        /\ h \notin CommittedHashes =>
              /\ isDocumentStored(h) = Returns(FALSE)
              /\ getDocumentInfo(h) = Reverts(NotFound)
              /\ getDocumentSignature(h) = Reverts(NotFound)
              /\ getDocumentCid(h) = Reverts(NotFound)

\* One hash is stored, with an empty locator, and another was never stored.
C6_Witness ==
    /\ \E h \in CommittedHashes : documents[h].ipfsCid = EmptyCid
    /\ Hashes \ CommittedHashes # {}
    /\ last.op = "storeDocumentHash"
    /\ last.status = Ok

\* C7 Enumeration order: getDocumentHashByIndex(i) returns, for i below
\* getDocumentCount(), the hash of the (i+1)-th call of storeDocumentHash that
\* returned, and reverts with "Index out of bounds" for every other i, 0 on an
\* empty registry included.
C7_EnumerationOrder ==
    \A i \in Indexes :
        IF i < getDocumentCount.ret
        THEN /\ i < Len(committed)
             /\ getDocumentHashByIndex(i) = Returns(committed[i + 1].tx.hash)
        ELSE /\ i >= Len(committed)
             /\ getDocumentHashByIndex(i) = Reverts(OutOfRange)

\* Every hash is stored, the last one first refused on an earlier attempt or
\* since: the index holds them in the order of the calls that returned.
C7_Witness ==
    /\ Len(committed) = MaxHash + 1
    /\ committed[1].tx.hash > committed[2].tx.hash
    /\ StoreReverted

\* C8 Count: getDocumentCount never reverts, returns 0 while no call of
\* storeDocumentHash has returned, grows by exactly 1 in a step in which one
\* returns, and is unchanged by every other step (a reverted
\* storeDocumentHash, verifyDocument, a later block); it never decreases.
C8_Count ==
    [][ /\ getDocumentCount.status = Ok
        /\ getDocumentCount'.status = Ok
        /\ committed = <<>> => getDocumentCount.ret = 0
        /\ getDocumentCount'.ret = getDocumentCount.ret + (Len(committed') - Len(committed))
        /\ getDocumentCount'.ret >= getDocumentCount.ret ]_vars

\* The count is 2 after two calls returned and a third reverted.
C8_Witness ==
    /\ getDocumentCount = Returns(2)
    /\ Len(committed) = 2
    /\ StoreReverted

RecordFields == {"hash", "timestamp", "signer", "signature", "ipfsCid"}

\* C9 Recorded event: a call of storeDocumentHash that returns emits exactly one
\* DocumentStored event, which carries all five fields of the stored record
\* (hash, timestamp, signer, signature, ipfsCid); a call that reverts emits none.
C9_RecordedEvent ==
    last.op = "storeDocumentHash" =>
        IF last.status = Ok
        THEN /\ Len(last.logs) = 1
             /\ last.logs[1].event = "DocumentStored"
             /\ RecordFields \subseteq DOMAIN last.logs[1]
             /\ \A f \in RecordFields : last.logs[1][f] = documents[last.logs[1].hash][f]
        ELSE last.logs = <<>>

(***************************************************************************)
(* Properties of the ledger (SpecRace).                                    *)
(***************************************************************************)
Mined(f) == { i \in RaceIds : pool[i].hash = f /\ receipts[i] # Pending }

Winners(f) == { i \in Mined(f) : receipts[i] = Ok }

\* C10 Same-key race: of the valid transactions submitted for one hash, in
\* whatever order the ledger mines them, exactly one returns and every other
\* one reverts with "Document already exists"; the record stored is the
\* winner's, and the hash is in documentHashes exactly once.
C10_SameKeyRace ==
    \A f \in Hashes :
        Mined(f) # {} =>
            /\ Cardinality(Winners(f)) = 1
            /\ \A i \in Mined(f) \ Winners(f) : receipts[i] = AlreadyExists
            /\ \A w \in Winners(f) : getDocumentInfo(f) = Returns(RecordOf(pool[w]))
            /\ Cardinality({ k \in 1..Len(documentHashes) : documentHashes[k] = f }) = 1

\* Two transactions for one hash that differ in timestamp, signature, signer
\* and locator were both mined, the second submitted first.
C10_Witness ==
    \E i, j \in RaceIds :
        /\ i < j
        /\ pool[i].hash = pool[j].hash
        /\ pool[i].timestamp # pool[j].timestamp
        /\ pool[i].signature # pool[j].signature
        /\ pool[i].signer # pool[j].signer
        /\ pool[i].ipfsCid # pool[j].ipfsCid
        /\ receipts[j] = Ok
        /\ receipts[i] = AlreadyExists

(***************************************************************************)
(* Properties of two calls on distinct hashes (SpecPair).                  *)
(***************************************************************************)
\* The status the call i of the pool gets if it is mined in this state
StatusOf(i) ==
    storeDocumentHashStatus(pool[i].hash, pool[i].timestamp, pool[i].signature,
                            pool[i].signer)

\* The step mines the call j of the pool
MinedBy(j) == receipts[j] = Pending /\ receipts'[j] # Pending

\* C11 Distinct-key independence: of two calls of storeDocumentHash on
\* distinct hashes mined at the same block time, mining one changes neither
\* the status the other gets (return, or the same revert reason) nor the
\* record stored for the other; a call that returns stores the record of its
\* own arguments whichever was mined first. Mining only appends to
\* documentHashes, so nothing but the positions depends on the order.
C11_DistinctKeys ==
    [][ \A i, j \in PairIds :
            (pool[i].hash # pool[j].hash /\ MinedBy(j)) =>
                /\ receipts[i] = Pending => StatusOf(i)' = StatusOf(i)
                /\ documents'[pool[i].hash] = documents[pool[i].hash]
                /\ receipts'[j] = StatusOf(j)
                /\ receipts'[j] = Ok => documents'[pool[j].hash] = RecordOf(pool[j])
                /\ receipts'[j] # Ok => documents'[pool[j].hash] = documents[pool[j].hash]
                /\ \A k \in 1..Len(documentHashes) : documentHashes'[k] = documentHashes[k]
                /\ { documentHashes'[k] : k \in 1..Len(documentHashes') } =
                       { documentHashes[k] : k \in 1..Len(documentHashes) } \cup
                       (IF receipts'[j] = Ok THEN {pool[j].hash} ELSE {})
      ]_vars

\* Two calls on distinct hashes were both mined, the second of the pool
\* first: it returned, and the first reverted because an earlier caller had
\* stored its hash.
C11_Witness ==
    \E i, j \in PairIds :
        /\ i < j
        /\ pool[i].hash # pool[j].hash
        /\ receipts[i] = AlreadyExists
        /\ receipts[j] = Ok
        /\ Len(documentHashes) = 2
        /\ documentHashes[2] = pool[j].hash

(***************************************************************************)
(* Properties of a run of the signing page (SpecRun).                      *)
(***************************************************************************)
\* The positions in `calls` of the calls of fn made by the current run
CallsOf(fn) == { k \in 1..Len(calls) : calls[k].fn = fn }

RunEnded == pc = "done" /\ ~isProcessing

Stored == blockchainData # NoBlockchainData

\* The messages of the upload errors that a retry cannot cure: the file is
\* too large or empty, the credential is missing or invalid
PermanentMessages ==
    {FileTooLarge.message, EmptyFile.message, JwtNotConfigured.message, JwtInvalid.message}

\* C12 Degraded publish: a run whose upload failed on every attempt has, when
\* it ends, called storeDocumentHash with ipfsCid = "" and, unless the
\* registry or the transport refused the call, handed the stored document to
\* onStored.
C12_DegradedPublish ==
    (RunEnded /\ ipfsStatus = "error") =>
        /\ \E k \in CallsOf("storeDocumentHash") : calls[k].arg.ipfsCid = EmptyCid
        /\ Stored \/ blockchainStatus = "error"

\* C13 Bounded retry: a run calls uploadToIPFS at most maxRetries + 1 times,
\* and exactly maxRetries + 1 times when every attempt failed; the attempts
\* are numbered 0, 1, ... and each one after the first directly follows a
\* timer of retryDelay that directly follows the attempt before; after the
\* attempt that returns a CID the run calls uploadToIPFS and the timer no more.
C13_BoundedRetry ==
    /\ Cardinality(CallsOf("uploadToIPFS")) <= maxRetries + 1
    /\ ipfsStatus = "error" => Cardinality(CallsOf("uploadToIPFS")) = maxRetries + 1
    /\ \A k \in CallsOf("uploadToIPFS") :
            /\ calls[k].arg = Cardinality({ j \in CallsOf("uploadToIPFS") : j < k })
            /\ calls[k].arg > 0 =>
                    /\ calls[k - 1] = Call("setTimeout", retryDelay)
                    /\ calls[k - 2] = Call("uploadToIPFS", calls[k].arg - 1)
    /\ \A k \in CallsOf("setTimeout") :
            /\ calls[k].arg = retryDelay
            /\ calls[k - 1].fn = "uploadToIPFS"
            /\ pc = "retryDelay" \/ (k < Len(calls) /\ calls[k + 1].fn = "uploadToIPFS")
    /\ ipfsStatus = "ok" =>
            /\ pc \in {"storeDocumentHash", "confirming", "done"}
            /\ Cardinality(CallsOf("uploadToIPFS")) = retryAttempt + 1
            /\ \A k \in CallsOf("uploadToIPFS") \cup CallsOf("setTimeout") :
                    \A j \in CallsOf("storeDocumentHash") : k < j

\* Every attempt of a run failed: maxRetries + 1 calls of uploadToIPFS, with
\* maxRetries timers between them.
C13_Witness ==
    /\ RunEnded
    /\ ipfsStatus = "error"
    /\ Cardinality(CallsOf("uploadToIPFS")) = maxRetries + 1
    /\ Cardinality(CallsOf("setTimeout")) = maxRetries
    /\ calls[Len(calls)] = Call("uploadToIPFS", maxRetries)

\* C14 Endorse failure is fatal before any external effect: a run that the
\* handler refuses (wallet not connected, hash not calculated) or whose
\* signing fails has ended with an error, having called neither uploadToIPFS
\* nor storeDocumentHash and stored nothing; uploadToIPFS and
\* storeDocumentHash are only called after the signature is there, and
\* storeDocumentHash is never called with an empty signature.
C14_EndorseFailure ==
    /\ (signStatus = "error" \/ error \in {WalletNotConnected, HashNotCalculated, SignFailed}) =>
            /\ RunEnded
            /\ error # Null
            /\ CallsOf("uploadToIPFS") = {}
            /\ CallsOf("storeDocumentHash") = {}
            /\ ~Stored
    /\ (CallsOf("uploadToIPFS") # {} \/ CallsOf("storeDocumentHash") # {}) =>
            /\ signStatus = "ok"
            /\ signature.signature.len > 0
    /\ \A k \in CallsOf("storeDocumentHash") :
            /\ calls[k].arg.signature.len > 0
            /\ calls[k].arg.signature = signature.signature

\* The signing of a run was rejected: the run ended with the error and
\* called nothing but signMessage.
C14_Witness ==
    /\ RunEnded
    /\ signStatus = "error"
    /\ error = SignFailed
    /\ calls = <<Call("signMessage", documentHash)>>

\* The reasons with which the registry refuses a call of storeDocumentHash
RegistryReasons ==
    {AlreadyExists, TimestampZero, TimestampFuture, InvalidSignature, InvalidSigner}

\* C15 Commit is attempted at most once per run and never retried: a run
\* calls storeDocumentHash at most once, as its last call; when the call is
\* refused by the registry, fails in transport, or is not made because the
\* contract is not loaded, the run has ended with that reason as its error,
\* with nothing handed to onStored and the uploaded CID left as it is; a run
\* hands a document to onStored only if its one call stored that very record.
C15_CommitOnce ==
    /\ Cardinality(CallsOf("storeDocumentHash")) <= 1
    /\ \A k \in CallsOf("storeDocumentHash") : k = Len(calls)
    /\ blockchainStatus = "error" =>
            /\ RunEnded
            /\ ~Stored
            /\ error \in RegistryReasons \cup {TransportError, NoTxHash}
            /\ error = blockchainProgress.error
            /\ error = NoTxHash <=> CallsOf("storeDocumentHash") = {}
            /\ ipfsStatus = "ok" /\ ipfsProgress.cid = ipfsCid
    /\ Stored =>
            /\ blockchainStatus = "ok"
            /\ \E k \in CallsOf("storeDocumentHash") :
                   /\ getDocumentInfo(calls[k].arg.hash) = Returns(RecordOf(calls[k].arg))
                   /\ committed[blockchainData.txHash].tx = calls[k].arg

\* The registry refused the one call of a run because another caller had
\* stored the document first; the run ended with the reason of the registry.
C15_Witness ==
    /\ RunEnded
    /\ blockchainStatus = "error"
    /\ error = AlreadyExists
    /\ Cardinality(CallsOf("storeDocumentHash")) = 1
    /\ Cardinality(CallsOf("uploadToIPFS")) > 1

\* C16 Permanent publish failure: after an upload attempt that failed with
\* an error no retry can cure, the run makes no further attempt: no retry
\* timer is pending after such an error.
C16_PermanentNotRetried == pc = "retryDelay" => errorMessage \notin PermanentMessages

(***************************************************************************)
(* Properties of the verification page (SpecVerifier).                     *)
(***************************************************************************)
VerificationEnded == vpc = "idle" /\ verificationResult # NoResult

Matched == verificationResult.isValid

Mismatch == verificationResult.error = SignerMismatch

NotFoundReported == verificationResult.error \in {NotInRegistry, NotInBlockchain}

\* The calls that stored the hash f before the current verification started
StoredBefore(f) == { i \in 1..verifyStart : committed[i].tx.hash = f /\ i <= Len(committed) }

\* C17 Verification round-trip: a verification that ended without a
\* resolution error and without an error of the provider reports exactly one
\* of Matched, Mismatch, NotFound; Matched when the hash of the file was
\* stored with the expected signer, Mismatch with the recorded signer in the
\* result when it was stored with another signer, and NotFound only when the
\* hash was not stored before the verification started.
C17_RoundTrip ==
    (VerificationEnded /\ verificationResult.error \notin {ResolutionError} \cup CaughtMessages) =>
        LET f == calculateFileHash(verifierFile) IN
        /\ \A i \in StoredBefore(f) :
              IF committed[i].tx.signer = resolvedAddress.value
              THEN Matched
              ELSE /\ Mismatch
                   /\ verificationResult.documentInfo[1].signer.value = committed[i].tx.signer
        /\ NotFoundReported => StoredBefore(f) = {}
        /\ Cardinality({ o \in {"Matched", "Mismatch", "NotFound"} :
                \/ o = "Matched" /\ Matched
                \/ o = "Mismatch" /\ Mismatch
                \/ o = "NotFound" /\ NotFoundReported }) = 1

\* What was typed is neither an address nor a name the chain resolves
Unresolvable(s, _chainId) ==
    /\ ~(s.kind = "address" /\ s.form # "mixed")
    /\ s.kind # "ens" \/ _chainId \notin ENS_SUPPORTED_CHAINS \/ s.value # "alice.eth"

\* C18 Resolution failure is its own outcome: a verification of a signer
\* that is neither an address nor a name that resolves ends as soon as the
\* resolution settles, with the resolution error, a message that no other
\* outcome uses, and without a call of the contract; a verification that
\* reports the resolution error has called the contract not once and has not
\* hashed the file.
C18_ResolutionFailure ==
    /\ ResolutionError \notin {NotInRegistry, NotInBlockchain, SignerMismatch} \cup CaughtMessages
    /\ (Unresolvable(signerAddress, chainId) /\ vpc # "resolveENSName"
            /\ (isVerifying \/ verificationResult # NoResult)) =>
            /\ vpc = "idle"
            /\ verificationResult = VerificationResult(FALSE, <<>>, ResolutionError)
    /\ verificationResult.error = ResolutionError =>
            /\ consulted = <<>>
            /\ fileHash = NoHash
            /\ ~Matched
            /\ ~isAddress(signerAddress)

\* A name that does not resolve was verified against a file whose hash is
\* stored: the result is the resolution error and the contract was not called.
C18_Witness ==
    /\ VerificationEnded
    /\ verificationResult.error = ResolutionError
    /\ signerAddress.kind = "ens"
    /\ verifierFile # NoFile
    /\ contract
    /\ documentExists(verifierFile.bytes[1])
    /\ consulted = <<>>

\* C19 The verifier is read-only: no step of handleVerify and no call of
\* verifyDocument of the contract changes documents, documentHashes or the
\* count, whatever it reports or returns.
C19_ReadOnly ==
    [][ (\/ vpc' # vpc
         \/ consulted' # consulted
         \/ verificationResult' # verificationResult
         \/ last'.op = "verifyDocument") =>
            /\ documents' = documents
            /\ documentHashes' = documentHashes
            /\ getDocumentCount' = getDocumentCount
            /\ committed' = committed
      ]_vars

\* The page reported a match for a stored document and verifyDocument of the
\* contract returned true; the registry holds what was stored.
C19_Witness ==
    /\ VerificationEnded
    /\ Matched
    /\ Len(consulted) = 2
    /\ last.op = "verifyDocument"
    /\ last.ret
    /\ Len(documentHashes) = Len(committed)
    /\ Len(committed) > 0

C21_ComparesSignature ==
    \A f \in Hashes, s \in Addresses, sig \in Signatures :
        verifyDocumentResult(f, s, sig) =>
            /\ documents[f].signer = s
            /\ documents[f].signature = sig

(***************************************************************************)
(* Properties of a run of the signing page (SpecRun), continued.           *)
(***************************************************************************)
\* A step of the page that ends the run where it is, with no further call
Cancels == NextRun /\ pc' = "done" /\ ~isProcessing' /\ calls' = calls

\* C22 Cancellation: a run that waits for the retry timer between two upload
\* attempts can be cancelled: a step of the page is possible that ends the
\* run there, without a further call of uploadToIPFS or storeDocumentHash.
C22_Cancellable == pc = "retryDelay" => ENABLED Cancels

\* The two outcomes of a run
Committed == Stored /\ blockchainStatus = "ok" /\ error = Null

Failed == ~Stored /\ error # Null

\* C23 Termination: when every call a run awaits returns or throws, a run
\* that is in progress ends; it makes at most 2 * maxRetries + 3 calls (one
\* signMessage, maxRetries + 1 uploads with maxRetries timers between them,
\* one storeDocumentHash); when it has ended, isProcessing is false and the
\* run is either Committed or Failed, never both and never neither.
C23_Termination ==
    /\ [](Len(calls) <= 2 * maxRetries + 3)
    /\ [](isProcessing <=> pc \notin {"idle", "done"})
    /\ [](RunEnded => (Committed /\ ~Failed) \/ (Failed /\ ~Committed))
    /\ isProcessing ~> RunEnded

\* A run ended Committed after the upload was retried.
C23_Witness ==
    /\ RunEnded
    /\ Committed
    /\ retryAttempt > 0
    /\ Len(calls) = 2 * retryAttempt + 3

\* The stages of a run in their order, each with its status
Stages == <<signStatus, ipfsStatus, blockchainStatus>>

FailedStages == { k \in 1..3 : Stages[k] = "error" }

\* C24 Failed names its stage: when a run has ended Failed, exactly one of
\* the three stages is marked 'error', every stage before it is marked 'ok',
\* every stage after it is 'idle', and the error shown is a non-empty reason,
\* the one recorded in the progress of the stage that failed.
C24_FailedNamesStage ==
    (RunEnded /\ Failed) =>
        /\ Cardinality(FailedStages) = 1
        /\ \A k \in FailedStages :
              /\ \A j \in 1..(k - 1) : Stages[j] = "ok"
              /\ \A j \in (k + 1)..3 : Stages[j] = "idle"
        /\ error \notin {Null, ""}
        /\ ipfsStatus = "error" => ipfsProgress.error = error
        /\ blockchainStatus = "error" => blockchainProgress.error = error

\* A run failed at the signature after an earlier run of the page had failed
\* at the registry: only the first stage is marked.
C24_Witness ==
    /\ RunEnded
    /\ Failed
    /\ signStatus = "error"
    /\ blockchainProgress.status = "error"
    /\ FailedStages = {1}

\* C25 No state carried between runs: when a run has started, before its
\* first stage has settled, the progress state of the page is that of a
\* fresh run: no error, the stages 'idle' after the one in progress, the
\* upload progress and the registry progress as when the page was mounted,
\* with no error, retry counter, CID or transaction of an earlier run.
C25_FreshRun ==
    pc = "signMessage" =>
        /\ error = Null
        /\ signStatus = "loading"
        /\ ipfsStatus = "idle"
        /\ blockchainStatus = "idle"
        /\ ipfsProgress = IPFSProgress("idle", 0, NoAttempt, Null, Null)
        /\ blockchainProgress = BlockchainProgress("idle", NoTx, Null)

\* The step ends the stage whose status is given before and after it
Ends(status, status_) == status_ \in {"ok", "error"} /\ status_ # status

\* C26 Progress with retry counters: the step that starts an upload attempt
\* sets ipfsProgress to 'uploading' with the number of the attempt, which is
\* 0 for the first attempt of a run and one more than the number shown
\* before for every later one, and never more than maxRetries; it is the
\* number of the call of uploadToIPFS made in that step. A stage is marked
\* 'ok' or 'error' only by a step that finds it marked 'loading'.
C26_RetryCounters ==
    [][ /\ (pc' = "uploadToIPFS" /\ pc # "uploadToIPFS") =>
              /\ ipfsStatus' = "loading"
              /\ ipfsProgress'.status = "uploading"
              /\ ipfsProgress'.retryAttempt =
                    (IF pc = "retryDelay" THEN ipfsProgress.retryAttempt + 1 ELSE 0)
              /\ ipfsProgress'.retryAttempt \in 0..maxRetries
              /\ calls'[Len(calls')] = Call("uploadToIPFS", ipfsProgress'.retryAttempt)
        /\ pc = "retryDelay" => ipfsProgress.status = "uploading"
        /\ Ends(signStatus, signStatus') => signStatus = "loading"
        /\ Ends(ipfsStatus, ipfsStatus') => ipfsStatus = "loading"
        /\ Ends(blockchainStatus, blockchainStatus') => blockchainStatus = "loading"
      ]_vars

\* The last attempt of a run has started: the counter shown is maxRetries.
C26_Witness ==
    /\ pc = "uploadToIPFS"
    /\ ipfsProgress.status = "uploading"
    /\ ipfsProgress.retryAttempt = maxRetries
    /\ Cardinality(CallsOf("uploadToIPFS")) = maxRetries + 1

(***************************************************************************)
(* Properties of the locator (SpecPair).                                   *)
(***************************************************************************)
\* The calls i and j of the pool differ in nothing but the locator
SameButLocator(i, j) == [pool[i] EXCEPT !.ipfsCid = pool[j].ipfsCid] = pool[j]

\* Mined in this state, the call i of the pool can get the status x
CanGet(i, x) == ENABLED (Mine(i) /\ receipts'[i] = x)

\* C27 The locator is unconstrained: in every state of the registry, two
\* calls of storeDocumentHash that differ only in _ipfsCid (the empty string
\* included) get the same status, both returning or both reverting with the
\* same reason; a record stored with an empty locator exists, is returned by
\* getDocumentInfo, and getDocumentCid returns the empty string for it.
C27_LocatorUnconstrained ==
    /\ \A i, j \in PairIds :
          (receipts[i] = Pending /\ receipts[j] = Pending /\ SameButLocator(i, j)) =>
              \A x \in RegistryReasons \cup {Ok} : CanGet(i, x) <=> CanGet(j, x)
    /\ \A i \in PairIds : receipts[i] = Pending => CanGet(i, StatusOf(i))
    /\ \A k \in 1..Len(committed) :
          LET tx == committed[k].tx IN
          tx.ipfsCid = EmptyCid =>
              /\ isDocumentStored(tx.hash) = Returns(TRUE)
              /\ getDocumentInfo(tx.hash) = Returns(RecordOf(tx))
              /\ getDocumentCid(tx.hash) = Returns(EmptyCid)

\* Of two calls that differ only in the locator, the one with the empty
\* locator was mined and returned; the record reads back an empty locator.
C27_Witness ==
    \E i, j \in PairIds :
        /\ i # j
        /\ SameButLocator(i, j)
        /\ pool[i].ipfsCid = EmptyCid
        /\ pool[j].ipfsCid # EmptyCid
        /\ receipts[i] = Ok
        /\ receipts[j] = Pending
        /\ getDocumentCid(pool[i].hash) = Returns(EmptyCid)

(***************************************************************************)
(* Properties of the hash of a file (SpecFingerprint).                     *)
(***************************************************************************)
SameBytes == artifact.bytes = verifierFile.bytes

\* C28 Fingerprint determinism: the hash the signing page calculates and the
\* hash the verification page calculates are each the keccak256 of the bytes
\* of the file and of nothing else (not its name); for files of the same
\* bytes the two are equal, the verification page consults the registry
\* under the hash the signing page stored, and a verification started after
\* the page stored the file finds the record and reports a match.
C28_FingerprintDeterminism ==
    /\ documentHash # NoHash => documentHash = keccak256(artifact.bytes)
    /\ fileHash # NoHash => fileHash = keccak256(verifierFile.bytes)
    /\ (SameBytes /\ documentHash # NoHash /\ fileHash # NoHash) => documentHash = fileHash
    /\ SameBytes =>
          \A k \in CallsOf("storeDocumentHash") : fileHash \in {NoHash, calls[k].arg.hash}
    /\ (/\ SameBytes
        /\ Stored
        /\ VerificationEnded
        /\ verifyStart >= blockchainData.txHash
        /\ verificationResult.error \notin CaughtMessages) =>
            /\ Matched
            /\ verificationResult.documentInfo[1].hash = documentHash

\* A file stored through the signing page was verified from a file of
\* another name with the same bytes, and matched.
C28_Witness ==
    /\ SameBytes
    /\ artifact.name # verifierFile.name
    /\ Stored
    /\ VerificationEnded
    /\ verifyStart >= blockchainData.txHash
    /\ Matched

\* The order of the calls of a run: signMessage once and first, then the
\* upload attempts, then storeDocumentHash
CallOrder ==
    /\ calls # <<>> => calls[1] = Call("signMessage", documentHash)
    /\ CallsOf("signMessage") \subseteq {1}
    /\ (CallsOf("uploadToIPFS") # {} \/ pc \in {"uploadToIPFS", "retryDelay"}) => signStatus = "ok"
    /\ \A k \in CallsOf("storeDocumentHash") :
          /\ \A j \in 1..Len(calls) : j # k => j < k /\ calls[j].fn # "storeDocumentHash"
          /\ CallsOf("uploadToIPFS") # {}
          /\ calls[k - 1].fn = "uploadToIPFS"
          /\ signStatus = "ok"
          /\ ipfsStatus = "ok"
    /\ pc = "storeDocumentHash" => signStatus = "ok" /\ ipfsStatus = "ok"

\* C29 Stage ordering: a run calls signMessage, then uploadToIPFS (only
\* after the signature was obtained), then storeDocumentHash (only after the
\* upload stage ended), and storeDocumentHash gets the hash of the page,
\* the signature and the timestamp that signDocument obtained in this run,
\* the connected account, and the CID that the successful upload attempt of
\* this run returned.
C29_StageOrdering ==
    /\ []CallOrder
    /\ [][ /\ (pc = "signMessage" /\ pc' = "uploadToIPFS") =>
                 /\ signature'.signature = WalletSignature
                 /\ signature'.timestamp \in {now, now + 1}
                 /\ signature'.signerAddress = account
           /\ (pc = "uploadToIPFS" /\ pc' = "storeDocumentHash") =>
                 /\ ipfsCid' \in Cids \ {EmptyCid}
                 /\ ipfsProgress'.cid = ipfsCid'
           /\ pc \in {"uploadToIPFS", "retryDelay", "storeDocumentHash"} =>
                 signature' = signature
           /\ pc = "storeDocumentHash" => ipfsCid' = ipfsCid
           /\ Cardinality(CallsOf("storeDocumentHash")') > Cardinality(CallsOf("storeDocumentHash")) =>
                 /\ pc = "storeDocumentHash"
                 /\ calls'[Len(calls')] =
                        Call("storeDocumentHash",
                             Tx(documentHash, signature.timestamp, signature.signature,
                                account, ipfsCid))
         ]_vars

\* A run stored the document after one retry of the upload: its last call
\* is storeDocumentHash with the CID that is handed to onStored.
C29_Witness ==
    /\ RunEnded
    /\ Stored
    /\ Cardinality(CallsOf("uploadToIPFS")) = 2
    /\ calls[Len(calls)].fn = "storeDocumentHash"
    /\ calls[Len(calls)].arg.ipfsCid = blockchainData.ipfsCID
    /\ calls[Len(calls)].arg.signer = account

\* C30 Commit timestamp never in the future: the timestamp a run passes to
\* storeDocumentHash is greater than zero and not after the block time at
\* which the call executes, so that no run ends with a timestamp error of
\* the registry, also when the latest block could not be read and the clock
\* of the browser was used.
C30_TimestampNotFuture ==
    /\ \A k \in CallsOf("storeDocumentHash") :
          /\ calls[k].arg.timestamp > 0
          /\ calls[k].arg.timestamp <= now
    /\ error \notin TimestampErrors
    /\ blockchainProgress.error \notin TimestampErrors

(***************************************************************************)
(* Properties of the registry (Spec), continued.                           *)
(***************************************************************************)
\* The hashes for which a record exists
ExistingHashes == { h \in Hashes : documentExists(h) }

\* The hashes in documentHashes
IndexedHashes == { documentHashes[k] : k \in 1..Len(documentHashes) }

\* C31 Index and records agree: in every reachable state documentHashes
\* holds no hash twice, a hash is in documentHashes exactly when
\* isDocumentStored returns true for it, getDocumentCount returns the number
\* of existing records, and the hash field of every existing record is the
\* key it is stored under.
C31_IndexConsistency ==
    /\ \A j, k \in 1..Len(documentHashes) : documentHashes[j] = documentHashes[k] => j = k
    /\ \A h \in Hashes : h \in IndexedHashes <=> isDocumentStored(h) = Returns(TRUE)
    /\ getDocumentCount = Returns(Cardinality(ExistingHashes))
    /\ \A h \in ExistingHashes : documents[h].hash = h

\* Every hash but bytes32(0) is stored, and a second call for a stored hash
\* was refused: the index holds each stored hash once.
C31_Witness ==
    /\ ExistingHashes = Hashes \ {ZeroHash}
    /\ Len(documentHashes) = MaxHash
    /\ last.op = "storeDocumentHash"
    /\ last.status = AlreadyExists

\* A signature that passes the third require
OneByteSignature == [len |-> 1, data |-> "s"]

\* C32 A call of storeDocumentHash that reverts has no effect: whatever the
\* reason, documents, documentHashes and the count are as before the call
\* and no event is emitted; after it every hash that was never stored is
\* still not stored, and a valid call for it returns.
C32_FailedPutNoEffect ==
    /\ [][ (last'.op = "storeDocumentHash" /\ last'.status # Ok) =>
                /\ last'.status \in RegistryReasons
                /\ documents' = documents
                /\ documentHashes' = documentHashes
                /\ getDocumentCount' = getDocumentCount
                /\ committed' = committed
                /\ last'.logs = <<>>
         ]_vars
    /\ [](StoreReverted =>
            \A h \in Hashes \ CommittedHashes :
                /\ isDocumentStored(h) = Returns(FALSE)
                /\ storeDocumentHashStatus(h, now, OneByteSignature, user1) = Ok)

\* After one document was stored, a call for a hash never stored was
\* refused for its timestamp: the index still holds the one hash.
C32_Witness ==
    /\ StoreReverted
    /\ last.status = TimestampFuture
    /\ Len(committed) = 1
    /\ documentHashes = <<committed[1].tx.hash>>
    /\ Hashes \ CommittedHashes # {}

\* The reasons in the order of the modifier and the requires
ReasonOrder == <<AlreadyExists, TimestampZero, TimestampFuture, InvalidSignature, InvalidSigner>>

\* The positions in ReasonOrder of the conditions a call violates
Violated(h, t, s, a) ==
    { k \in 1..5 :
        \/ k = 1 /\ h \in CommittedHashes
        \/ k = 2 /\ t = 0
        \/ k = 3 /\ t > now
        \/ k = 4 /\ BadLength(s)
        \/ k = 5 /\ a = NullAddress }

\* C33 Error precedence: a call of storeDocumentHash that violates several
\* conditions reverts with the first of them in the order: hash already
\* stored, timestamp zero, timestamp in the future, signature length, null
\* signer; it returns when it violates none. The reason depends on nothing
\* but the registry, the block time and the arguments, and a call that
\* reverted reported one of these reasons.
C33_ErrorPrecedence ==
    /\ \A h \in Hashes, t \in Timestamps, s \in Signatures, a \in Addresses :
          LET v == Violated(h, t, s, a) IN
          IF v = {}
          THEN storeDocumentHashStatus(h, t, s, a) = Ok
          ELSE \E k \in v :
                  /\ \A j \in v : k <= j
                  /\ storeDocumentHashStatus(h, t, s, a) = ReasonOrder[k]
    /\ StoreReverted => \E k \in 1..5 : last.status = ReasonOrder[k]

\* A call was refused for a timestamp of zero while a call that violates
\* four conditions at once would be refused for the first of them.
C33_Witness ==
    /\ StoreReverted
    /\ last.status = TimestampZero
    /\ \E h \in CommittedHashes :
          /\ Violated(h, MaxTime + 1, EmptyBytes, NullAddress) = {1, 3, 4, 5}
          /\ storeDocumentHashStatus(h, MaxTime + 1, EmptyBytes, NullAddress) = AlreadyExists

(***************************************************************************)
(* The ledger with two calls sent by accounts that need not be the signer  *)
(* they name.                                                              *)
(***************************************************************************)
Senders == {user1, user2}

\* A transaction: the account that sends it and the arguments of the call
SentTxs ==
    [from : Senders, hash : Hashes, timestamp : {0, MaxTime, MaxTime + 1},
     signature : {EmptyBytes, [len |-> 1, data |-> "s"]},
     signer : Addresses, ipfsCid : {EmptyCid}]

\* Faulty variant of the external call: only the signer may store
externalCall_onlySigner(msg_sender, tx) ==
    IF msg_sender = tx.signer
    THEN storeDocumentHash(tx.hash, tx.timestamp, tx.signature, tx.signer, tx.ipfsCid)
    ELSE /\ last' = Receipt("storeDocumentHash", InvalidSigner, "", <<>>)
         /\ UNCHANGED <<documents, documentHashes, committed, now>>

\* storeDocumentHash is external and has no modifier or require on
\* msg.sender: the body runs on the arguments alone
externalCall(msg_sender, tx) ==
    storeDocumentHash(tx.hash, tx.timestamp, tx.signature, tx.signer, tx.ipfsCid)

InitCaller ==
    /\ documents = [h \in Hashes |-> EmptyDocument]
    /\ documentHashes = <<>>
    /\ now = MaxTime
    /\ last = Receipt("constructor", Ok, "", <<>>)
    /\ committed = <<>>
    /\ pool \in [PairIds -> SentTxs]
    /\ receipts = [i \in PairIds |-> Pending]
    /\ NoClient

MineSent(i) ==
    /\ receipts[i] = Pending
    /\ externalCall(pool[i].from, pool[i])
    /\ receipts' = [receipts EXCEPT ![i] = last'.status]
    /\ UNCHANGED <<pool, clientVars>>

NextCaller == Earlier \/ \E i \in PairIds : MineSent(i)

SpecCaller == InitCaller /\ [][NextCaller]_vars

(***************************************************************************)
(* Properties of the caller of storeDocumentHash (SpecCaller).             *)
(***************************************************************************)
\* The calls i and j have the same arguments and different senders
SameButSender(i, j) ==
    /\ pool[i].from # pool[j].from
    /\ [pool[i] EXCEPT !.from = pool[j].from] = pool[j]

\* Mining the call i in this state can give it the status x
CanGetSent(i, x) == ENABLED (MineSent(i) /\ receipts'[i] = x)

\* C34 Caller independence: in every registry state two pending calls of
\* storeDocumentHash with the same arguments and different senders would get
\* the same status; a mined call that returned stored exactly the record of
\* its arguments and one that reverted stored nothing, whoever sent it; and
\* a call whose hash is not stored, whose timestamp is between 1 and the
\* block time, whose signature has a valid length and whose signer is not
\* null returns, whether or not its sender is the signer it names and
\* whatever the bytes of the signature.
C34_CallerIndependence ==
    /\ [](\A i \in PairIds, j \in PairIds :
            (receipts[i] = Pending /\ receipts[j] = Pending /\ SameButSender(i, j)) =>
                \A x \in RegistryReasons \cup {Ok} : CanGetSent(i, x) <=> CanGetSent(j, x))
    /\ [][\A i \in PairIds : MinedBy(i) =>
            /\ receipts'[i] = StatusOf(i)
            /\ IF receipts'[i] = Ok
               THEN documents' = [documents EXCEPT ![pool[i].hash] = RecordOf(pool[i])]
               ELSE documents' = documents]_vars
    /\ [](\A i \in PairIds :
            (/\ receipts[i] = Pending
             /\ documentNotExists(pool[i].hash)
             /\ pool[i].timestamp \in 1..now
             /\ ~BadLength(pool[i].signature)
             /\ pool[i].signer # NullAddress) => CanGetSent(i, Ok))

\* Two calls with the same arguments were sent by two accounts; the one of
\* the account that is not the signer was mined first and stored the
\* record, the one of the signer itself then found the document stored.
C34_Witness ==
    /\ SameButSender(1, 2)
    /\ pool[1].from # pool[1].signer
    /\ pool[2].from = pool[2].signer
    /\ receipts[1] = Ok
    /\ receipts[2] = AlreadyExists
    /\ documents[pool[1].hash] = RecordOf(pool[1])

(***************************************************************************)
(* The wallet and network providers: connect, disconnect, switchWallet,    *)
(* switchNetwork and the signature of a document, in any order. A handler  *)
(* runs to its end with the state of the render it was created in, and the *)
(* effects a state change triggers run with it.                            *)
(***************************************************************************)
\* What the wallet selector and the callers of connect can pass
WalletInputs == {-1, 0, 1, 2}

\* What switchNetwork can be called with: the keys of the selector, and a
\* key that is not in NETWORKS
NetworkInputs == NetworkKeys \cup {"mainnet"}

\* Faulty variant of connect: the index of the wallet is not recorded
connect_keepsIndex(walletIndex) ==
    IF wallets = <<>>
    THEN /\ walletError' = NoMnemonic
         /\ isConnected' = FALSE
         /\ account' = Null
         /\ UNCHANGED currentWalletIndex
    ELSE IF walletIndex < 0 \/ walletIndex >= Len(wallets)
    THEN /\ walletError' = InvalidWalletIndex
         /\ isConnected' = FALSE
         /\ account' = Null
         /\ UNCHANGED currentWalletIndex
    ELSE /\ walletError' = Null
         /\ account' = WalletAt(walletIndex).address
         /\ isConnected' = TRUE
         /\ UNCHANGED currentWalletIndex

connect(walletIndex) ==
    IF wallets = <<>>
    THEN /\ walletError' = NoMnemonic
         /\ isConnected' = FALSE
         /\ account' = Null
         /\ UNCHANGED currentWalletIndex
    ELSE IF walletIndex < 0 \/ walletIndex >= Len(wallets)
    THEN /\ walletError' = InvalidWalletIndex
         /\ isConnected' = FALSE
         /\ account' = Null
         /\ UNCHANGED currentWalletIndex
    ELSE /\ walletError' = Null
         /\ currentWalletIndex' = walletIndex
         /\ account' = WalletAt(walletIndex).address
         /\ isConnected' = TRUE

\* What the wallet actions leave alone
walletRest ==
    <<registryVars, verifierVars, stepperVars, contract, pinataJwt, file, artifact, documentHash,
      isProcessing, error, signStatus, ipfsStatus, blockchainStatus, ipfsProgress,
      blockchainProgress, blockchainData, pc, retryAttempt, errorMessage,
      ipfsCid, calls>>

Connect ==
    /\ \E walletIndex \in WalletInputs :
          /\ connect(walletIndex)
          /\ walletCall' = WalletCall("connect", walletIndex, "")
    /\ UNCHANGED <<currentNetwork, mnemonics, signature, walletRest>>

disconnect ==
    /\ account' = Null
    /\ isConnected' = FALSE
    /\ walletError' = Null
    /\ walletCall' = WalletCall("disconnect", 0, "")
    /\ UNCHANGED <<currentNetwork, currentWalletIndex, mnemonics, signature, walletRest>>

switchWallet ==
    /\ \E walletIndex \in WalletInputs :
          /\ connect(walletIndex)
          /\ walletCall' = WalletCall("switchWallet", walletIndex, "")
    /\ UNCHANGED <<currentNetwork, mnemonics, signature, walletRest>>

\* Faulty variant of what follows a change of network: the wallet is kept
networkChanged_keepsWallet(networkKey) ==
    UNCHANGED <<account, isConnected, walletError, currentWalletIndex>>

\* useEffect(..., [networkConfig.name]) of MetaMaskProvider
networkChanged(networkKey) ==
    /\ account' = Null
    /\ isConnected' = FALSE
    /\ walletError' = Null
    /\ currentWalletIndex' = 0

\* NetworkProvider.switchNetwork(networkKey), the render that follows when
\* the state changed, and the effect of MetaMaskProvider when the name of
\* the network changed with it
switchNetwork ==
    /\ \E networkKey \in NetworkInputs :
          /\ currentNetwork' = IF networkKey \in NetworkKeys THEN networkKey
                               ELSE currentNetwork
          /\ IF NetworkName(currentNetwork') # NetworkName(currentNetwork)
             THEN networkChanged(networkKey)
             ELSE UNCHANGED <<account, isConnected, walletError, currentWalletIndex>>
          /\ chainId' = NetworkChainId(currentNetwork')
          /\ walletCall' = WalletCall("switchNetwork", 0, networkKey)
    /\ UNCHANGED <<mnemonics, signature, registryVars, stepperVars, contract, pinataJwt, file, artifact,
                   documentHash, isProcessing, error, signStatus, ipfsStatus,
                   blockchainStatus, ipfsProgress, blockchainProgress, blockchainData,
                   pc, retryAttempt, errorMessage, ipfsCid, calls>>
    /\ UNCHANGED <<verifierFile, signerAddress, addressCache, isVerifying,
                   verificationResult, vpc, resolvedAddress, fileHash, consulted,
                   verifyStart>>

\* signDocument of the signing page with the wallet of the provider:
\* signMessage signs with the key of wallets[currentWalletIndex], and the
\* signature data names the account; both throw when not connected
signMessage ==
    /\ IF account = Null \/ ~isConnected
       THEN /\ walletCall' = WalletCall("signMessage", -1, "")
            /\ UNCHANGED signature
       ELSE /\ signature' = SignatureData(
                    SignedBy(WalletAt(currentWalletIndex).privateKey, documentHash),
                    now, account)
            /\ walletCall' = WalletCall("signMessage", currentWalletIndex, "")
    /\ UNCHANGED <<currentNetwork, currentWalletIndex, walletError, mnemonics,
                   account, isConnected, walletRest>>

\* The providers mounted with the network saved in localStorage, on a build
\* with any configuration of the mnemonic of sepolia
InitWallet ==
    /\ documents = [h \in Hashes |-> EmptyDocument]
    /\ documentHashes = <<>>
    /\ now = 1
    /\ last = Receipt("constructor", Ok, "", <<>>)
    /\ committed = <<>>
    /\ pool = <<>>
    /\ receipts = <<>>
    /\ currentNetwork \in NetworkKeys
    /\ currentWalletIndex = 0
    /\ walletError = Null
    /\ mnemonics \in { [key \in NetworkKeys |-> IF key = "anvil" THEN JunkMnemonic ELSE s] :
                         s \in SepoliaMnemonics }
    /\ walletCall = WalletCall("mount", 0, "")
    /\ account = Null
    /\ isConnected = FALSE
    /\ contract = FALSE
    /\ pinataJwt = FALSE
    /\ file = "pdf"
    /\ artifact = NoFile
    /\ documentHash = NoHash
    /\ StepperMounted
    /\ ComponentMounted
    /\ verifierFile = NoFile
    /\ signerAddress = Text("blank", "", "lower")
    /\ chainId = NetworkChainId(currentNetwork)
    /\ VerifierMounted

NextWallet ==
    \/ Connect
    \/ disconnect
    \/ switchWallet
    \/ switchNetwork
    \/ signMessage

SpecWallet == InitWallet /\ [][NextWallet]_vars

SwitchedToKnown == walletCall.fn = "switchNetwork" /\ walletCall.networkKey \in NetworkKeys

Disconnected == account = Null /\ ~isConnected /\ currentWalletIndex = 0

stepperRest ==
    <<registryVars, verifierVars, walletVars, account, isConnected, contract, pinataJwt,
      file, artifact, documentHash, error, signStatus, ipfsStatus, blockchainStatus,
      ipfsProgress, blockchainProgress, blockchainData, retryAttempt, errorMessage,
      signature, ipfsCid, calls>>

Step1Mounted == state.currentStep = "upload"

Step2Mounted == state.currentStep = "sign" /\ state.documentData.fileData # NoFile

\* Step1UploadFile.handleFileSelect with a PDF of an allowed size, from the
\* upload area, which is rendered while there is no file
handleFileSelect ==
    /\ Step1Mounted
    /\ step1File = NoFile
    /\ \E selectedFile \in NamedFiles :
          /\ step1File' = selectedFile
          /\ state' = handleFileReady(state, selectedFile)
    /\ UNCHANGED <<isProcessing, pc, stepperRest>>

\* Step1UploadFile.handleRemoveFile, from the button of the file card
Step1RemoveFile ==
    /\ Step1Mounted
    /\ step1File # NoFile
    /\ step1File' = NoFile
    /\ state' = handleRemoveFile(handleSetConfirmedReading(state, FALSE))
    /\ UNCHANGED <<isProcessing, pc, stepperRest>>

\* The checkbox "I have read and reviewed all pages of this document"
onSetConfirmedReading ==
    /\ Step1Mounted
    /\ step1File # NoFile
    /\ \E checked \in BOOLEAN : state' = handleSetConfirmedReading(state, checked)
    /\ UNCHANGED <<step1File, isProcessing, pc, stepperRest>>

\* Faulty variant of handleContinue: the confirmation is not looked at
handleContinue_unchecked ==
    /\ Step1Mounted
    /\ step1File # NoFile
    /\ state' = handleContinueToSign(state)
    /\ step1File' = NoFile
    /\ UNCHANGED <<isProcessing, pc, stepperRest>>

\* Step1UploadFile.handleContinue; the first page is unmounted when the
\* step changes
handleContinue ==
    /\ Step1Mounted
    /\ step1File # NoFile
    /\ IF step1File # NoFile /\ state.confirmedReading
       THEN /\ state' = handleContinueToSign(state)
            /\ step1File' = NoFile
       ELSE UNCHANGED <<state, step1File>>
    /\ UNCHANGED <<isProcessing, pc, stepperRest>>

\* The click on "Sign and Store Document" of the second page
Step2Starts ==
    /\ Step2Mounted
    /\ pc \in {"idle", "done"}
    /\ ~isProcessing
    /\ state.documentData.blockchainData = NoBlockchainData
    /\ isProcessing' = TRUE
    /\ pc' = "signMessage"
    /\ UNCHANGED <<state, step1File, stepperRest>>

\* signDocument of the run ends: onDocumentSigned(newSignatureData), or the
\* run fails
Step2Signed ==
    /\ pc = "signMessage"
    /\ \/ /\ state' = handleDocumentSigned(state, SignatureData(WalletSignature, now, user1))
          /\ pc' = "storeDocumentHash"
          /\ UNCHANGED isProcessing
       \/ /\ pc' = "done"
          /\ isProcessing' = FALSE
          /\ UNCHANGED state
    /\ UNCHANGED <<step1File, stepperRest>>

\* The upload and storeOnBlockchain of the run end: onStored(data), or the
\* run fails
Step2Stored ==
    /\ pc = "storeDocumentHash"
    /\ \/ \E _ipfsCid \in Cids \ {EmptyCid} :
              state' = handleStored(state, BlockchainData(1, _ipfsCid))
       \/ UNCHANGED state
    /\ pc' = "done"
    /\ isProcessing' = FALSE
    /\ UNCHANGED <<step1File, stepperRest>>

\* The button "Back" of the second page, disabled while a run is in
\* progress: the first page is mounted with the file of the stepper
Step2Back ==
    /\ Step2Mounted
    /\ ~isProcessing
    /\ state' = handleBackToUpload(state)
    /\ step1File' = state.documentData.fileData
    /\ pc' = "idle"
    /\ UNCHANGED <<isProcessing, stepperRest>>

\* The button "Sign Another Document", rendered when the document is stored
Step2SignAnother ==
    /\ Step2Mounted
    /\ state.documentData.blockchainData # NoBlockchainData
    /\ state' = handleSignAnother(state)
    /\ step1File' = NoFile
    /\ pc' = "idle"
    /\ UNCHANGED <<isProcessing, stepperRest>>

InitStepper ==
    /\ documents = [h \in Hashes |-> EmptyDocument]
    /\ documentHashes = <<>>
    /\ now = 1
    /\ last = Receipt("constructor", Ok, "", <<>>)
    /\ committed = <<>>
    /\ pool = <<>>
    /\ receipts = <<>>
    /\ NoClient

NextStepper ==
    \/ handleFileSelect
    \/ Step1RemoveFile
    \/ onSetConfirmedReading
    \/ handleContinue
    \/ Step2Starts
    \/ Step2Signed
    \/ Step2Stored
    \/ Step2Back
    \/ Step2SignAnother
    \/ Tick

SpecStepper == InitStepper /\ [][NextStepper]_vars

(***************************************************************************)
(* Properties of the stepper (SpecStepper).                                *)
(***************************************************************************)
\* C37 Stepper invariants: in every state the handlers of the pages lead
\* to, currentStep = 'sign' implies that there is a file and that the
\* reading is confirmed, and blockchain data implies signature data;
\* REMOVE_FILE and RESET_STEPPER, dispatched in any such state, give the
\* initial state (step 'upload', no file, no signature data, no blockchain
\* data, confirmedReading false), and the steps that remove the file or
\* start over with another document leave the stepper in it.
C37_StepperInvariants ==
    /\ [](state.currentStep = "sign" =>
            state.documentData.fileData # NoFile /\ state.confirmedReading)
    /\ [](state.documentData.blockchainData # NoBlockchainData =>
            state.documentData.signatureData # NoSignatureData)
    /\ [](/\ stepperReducer(state, StepperAction("REMOVE_FILE", Null)) = initialState
          /\ stepperReducer(state, StepperAction("RESET_STEPPER", Null)) = initialState
          /\ initialState.currentStep = "upload"
          /\ initialState.documentData =
                [fileData |-> NoFile, signatureData |-> NoSignatureData,
                 blockchainData |-> NoBlockchainData]
          /\ ~initialState.confirmedReading)
    /\ [][(/\ state.currentStep = "upload" /\ state'.currentStep = "upload"
           /\ step1File # NoFile /\ step1File' = NoFile) => state' = initialState]_vars
    /\ [][(/\ state.documentData.blockchainData # NoBlockchainData
           /\ state'.documentData.blockchainData = NoBlockchainData) =>
                state' = initialState]_vars

\* A document was signed and stored, and the page is still on the step 'sign'
C37_Witness ==
    /\ state.currentStep = "sign"
    /\ state.confirmedReading
    /\ state.documentData.blockchainData # NoBlockchainData
    /\ state.documentData.signatureData # NoSignatureData
    /\ state.stepStatuses.sign = "completed"
    /\ stepperReducer(state, StepperAction("REMOVE_FILE", Null)) # state

(***************************************************************************)
(* The verification page with the cache of utils/ens.ts cleared from       *)
(* outside the page (clearENSCache is exported for tests and the console). *)
(***************************************************************************)
\* clearENSCache(), between two calls of resolveENSName
clearENSCache ==
    /\ vpc # "resolveENSName"
    /\ addressCache' = [k \in ChainIds \X EnsNames |-> <<>>]
    /\ UNCHANGED <<verifierFile, signerAddress, chainId, isVerifying, verificationResult,
                   vpc, resolvedAddress, fileHash, consulted, verifyStart>>
    /\ UNCHANGED <<registryVars, runVars>>

NextCache == NextVerifier \/ clearENSCache

SpecCache == InitVerifier /\ [][NextCache]_vars

(***************************************************************************)
(* Properties of the cache of resolved names (SpecCache).                  *)
(***************************************************************************)
\* The entry of the cache for the name that was typed, on the current chain
CachedAnswer == addressCache[<<chainId, signerAddress.value>>]

\* The step clears the cache
Cleared == \A k \in ChainIds \X EnsNames : addressCache'[k] = <<>>

\* C38 Resolution cache is sticky: once resolveENSName has an answer for a
\* chain and a name in addressCache (an address, or null for a name that is
\* not registered or for a failure of the provider), a call for the same
\* chain and name returns that answer and does not ask the provider, and the
\* entry changes only when clearENSCache empties the cache; so with a null in
\* the cache, whatever the name would resolve to, a verification with that
\* name ends at the resolution with the resolution error, without a call of
\* the contract, and every result reported while the null is cached is the
\* resolution error.
C38_StickyCache ==
    /\ []((signerAddress.kind = "ens" /\ CachedAnswer # <<>>) =>
            /\ resolveENSName(trim(signerAddress), chainId) = {CachedAnswer[1]}
            /\ ~AsksProvider(trim(signerAddress), chainId))
    /\ [][\A k \in ChainIds \X EnsNames :
            addressCache[k] # <<>> => (addressCache'[k] = addressCache[k] \/ Cleared)]_vars
    /\ [][(/\ signerAddress.kind = "ens"
           /\ CachedAnswer = <<NullText>>
           /\ vpc = "resolveENSName"
           /\ vpc' # vpc) =>
                /\ verificationResult' = VerificationResult(FALSE, <<>>, ResolutionError)
                /\ vpc' = "idle"
                /\ consulted' = consulted
                /\ addressCache' = addressCache]_vars
    /\ []((signerAddress.kind = "ens" /\ CachedAnswer = <<NullText>>
            /\ verificationResult # NoResult) =>
                verificationResult.error = ResolutionError)

\* The provider failed once for a name that resolves on this chain, the
\* null is in the cache, and a later verification with the same name is at
\* its resolution.
C38_Witness ==
    /\ signerAddress.kind = "ens"
    /\ getENSProvider(chainId)
    /\ resolveName(signerAddress.value) # NullText
    /\ CachedAnswer = <<NullText>>
    /\ vpc = "resolveENSName"
    /\ isVerifying
    /\ contract
    /\ documentExists(verifierFile.bytes[1])

=============================================================================
